---- MODULE Spec2Model ----
(***************************************************************************)
(* Live-Screen-Translator: the capture/translate loop, its start/stop      *)
(* handlers and the OCR result cache.                                      *)
(*                                                                         *)
(* The repository holds two generations of the loop, each a runnable       *)
(* program of its own:                                                     *)
(*   "mvc"    src/main.py -> controllers/translation_controller.py with    *)
(*            models/ocr_model.py and models/translation_model.py          *)
(*   "legacy" src/screen_translator.py with ocr_manager.py,                *)
(*            translation_worker.py and translation_history.py             *)
(*   "core"   src/ui/app_core.py with core/ocr/ocr_manager.py and           *)
(*            core/translation/translation_worker.py: of this one only the *)
(*            OCR cache and the translation engines are modelled            *)
(* variant says which program runs; it is chosen in Init and never changes.*)
(*                                                                         *)
(* Threads: the Tk main thread runs the handlers (start_translation,       *)
(* stop_translation, scheduled callbacks) one at a time; every             *)
(* start_translation creates a worker thread. Threads interleave at calls  *)
(* and awaits: a run of statements without a call is one step, and a step  *)
(* that touches only the worker's locals is taken together with the next   *)
(* step that reads or writes shared state.                                 *)
(***************************************************************************)
EXTENDS Integers, Sequences, FiniteSets, TLC

\* ---------------------------------------------------------------- bounds
\* Screenshots taken by all workers together.
MaxCaptures == 2
\* Thread slots: a slot can be used again once its thread has ended.
Threads == {1, 2}
\* Non-empty texts the OCR can recognise; "" is the empty recognition.
Texts == {"a", "b"}
Variants == {"mvc", "legacy", "core"}

NoThread == 0

VARIABLES
    variant,             \* which program runs
    selected_region,     \* BOOLEAN: a region has been selected
    is_translating,      \* the "should continue" flag
    last_ocr_text,       \* _last_ocr_text (mvc) / previous_text (legacy)
    translation_window,  \* BOOLEAN: translation_window is set and exists
    translation_thread,  \* the thread object last created, or NoThread
    main_pc,             \* position of the Tk main thread
    pc,                  \* pc[t]: position of worker thread t
    ocr_text,            \* ocr_text[t]: local of the worker
    translated_text,     \* translated_text[t]: local of the worker
    history,             \* the translation history (mvc: oldest entry first,
                         \*    legacy: newest entry first)
    pending,             \* display callbacks scheduled on the main thread
    captures,            \* screenshots taken so far (bounds the run)
    \* ---- observation only: never read by the program's actions
    in_flight_failed,    \* in_flight_failed[t]: the translation call of t's
                         \*    current iteration failed
    stop_returned,       \* stop_translation has returned and no
                         \*    start_translation has been called since
    stop_seen,           \* stop_seen[t]: stop_translation was requested
                         \*    while t was running
    display_count,       \* display updates issued so far
    skipped_unchanged,   \* a recognised text was skipped as unchanged
    \* ---- the OCR result cache (OCRManager)
    now,                 \* the clock, in seconds
    cache,               \* cache[k]: NoEntry or [at, result]
    \* ---- observation only
    last_compute,        \* last_compute[k]: the latest OCR computation run
                         \*    for key k: NoEntry or [at, failed, result]
    last_call,           \* the latest process_image call
    \* ---- the translation engines (TranslationModel / TranslationManager)
    gemini_configured,   \* BOOLEAN: GeminiTranslator was built with an api
                         \*    key (GEMINI_API_KEY is set)
    available_engines,   \* _available_engines (mvc) / the keys of engines;
                         \*    <<>> as long as the registry is not built
    current_engine,      \* _current_engine / current_engine
    engine_instances,    \* the names that have an engine instance: the
                         \*    keys of _engines (mvc) / engines
    configured,          \* the engine name the configuration held when
                         \*    the mvc registry was built
    tr_pc,               \* position of the translate call
    tr_text,             \* the text of the translate call
    tr_engine,           \* the engine the translate call looked up
    attempt,             \* loop variable of the retry loop
    tr_result,           \* what translate returned ("" when it raised)
    tr_raised,           \* BOOLEAN: translate raised
    \* ---- observation only
    outcomes,            \* outcomes of the outbound calls of this translate
    engine_called,       \* BOOLEAN: engine.translate was called
    \* ---- the OCR engines (OCRModel and its OCRManager, mvc)
    ocr_available,       \* OCRModel._available_engines
    ocr_current,         \* OCRModel._current_engine
    reader,              \* BOOLEAN: OCRManager._reader is not None
    tesseract_initialized, \* OCRManager._tesseract_initialized
    \* ---- observation only
    construction_failures, \* construction_failures[e]: failed constructions
    last_set,            \* last_set[kind]: the latest set_engine call
    cycle_from,          \* cycle_from[kind]: the engine that was current
                         \*    before the cycle calls counted in cycle_count
    cycle_count,         \* cycle_count[kind]: cycle calls since the latest
                         \*    direct selection
    \* ---- the OCR error budget (ScreenTranslator._process_ocr, legacy)
    error_count,         \* self.error_count
    last_error_time,     \* self.last_error_time, NoTime for None
    error_dialog,        \* BOOLEAN: _show_error_dialog has been scheduled
    \* ---- observation only
    ocr_failure_times,   \* the times at which an OCR computation failed
    \* ---- the history store (TranslationModel / TranslationHistory);
    \*      history above is its in-memory list
    history_file,        \* the entries of translation_history.json, <<>>
                         \*    for a missing, empty or cut-off file
    h_pc,                \* h_pc[c]: position of caller c inside the store
    h_op,                \* h_op[c]: the operation c is in or was in last
    history_data,        \* history_data[c]: local of _save_history
    appends,             \* entries appended so far (the wall clock of the
                         \*    timestamps, in seconds)
    reader_list,         \* the list a get_history caller holds
    reader_shared,       \* BOOLEAN: that list is the store's list object
    \* ---- observation only
    appended,            \* the entry of the append in progress or last made
    last_save,           \* last_save[c]: outcome of the save of c's
                         \*    operation: "none", "ok" or "failed"
    unsaved,             \* BOOLEAN: the latest save to end has failed
    concurrent,          \* BOOLEAN: the store operation in progress, or
                         \*    the last one, overlapped with another one
    \* ---- the OCR result aggregator
    detections,          \* results: what readtext returned
    agg_state,           \* "idle", "read" (readtext has returned), "done"
    agg_lines,           \* lines: the detections of every line
    agg_text,            \* the text the EasyOCR branch returns
    \* ---- observation only
    prev_text,           \* the text of the aggregation before when it had
                         \*    the same detections, else NoText
    \* ---- the callers of process_image
    lookups,             \* process_image calls made with chosen arguments
    \* ---- observation only
    produced_by,         \* produced_by[k]: the arguments of the call that
                         \*    stored the entry of key k, else NoArgs
    lookup,              \* the latest such call: its arguments, those of
                         \*    the call before, and where its answer is from
    \* ---- observation only
    loaded,              \* what load_history returned when the store was
                         \*    built from an existing file, else NotLoaded
    recognised,          \* the OCR results of the iterations followed
    submitted,           \* the texts of the translation calls they made
    \* ---- the language settings and the entry of a translation
    config_langs,        \* the source and target language that are set
    tr_langs,            \* the languages the translate call was made with
    recorded             \* what the latest history entry was built with
                         \*    and what its translate call had used

vars == <<variant, selected_region, is_translating, last_ocr_text,
          translation_window, translation_thread, main_pc, pc, ocr_text,
          translated_text, history, pending, captures,
          in_flight_failed, stop_returned, stop_seen, display_count,
          skipped_unchanged, now, cache, last_compute, last_call,
          gemini_configured, available_engines, current_engine,
          engine_instances, configured, tr_pc, tr_text,
          tr_engine, attempt, tr_result, tr_raised, outcomes, engine_called,
          ocr_available, ocr_current, reader, tesseract_initialized,
          construction_failures, last_set, cycle_from, cycle_count,
          error_count, last_error_time, error_dialog, ocr_failure_times,
          history_file, h_pc, h_op, history_data, appends, reader_list,
          reader_shared, appended, last_save, unsaved, concurrent,
          detections, agg_state, agg_lines, agg_text, prev_text,
          lookups, produced_by, lookup, loaded, recognised, submitted,
          config_langs, tr_langs, recorded>>

cacheVars == <<now, cache, last_compute, last_call>>

engineVars == <<gemini_configured, available_engines, current_engine,
                engine_instances, configured>>

transVars == <<tr_pc, tr_text, tr_engine, attempt, tr_result, tr_raised, outcomes,
               engine_called, tr_langs>>

recordVars == <<config_langs, recorded>>

ocrVars == <<ocr_available, ocr_current, reader, tesseract_initialized,
             construction_failures>>

selectVars == <<last_set, cycle_from, cycle_count>>

budgetVars == <<error_count, last_error_time, error_dialog,
                ocr_failure_times>>

\* the history store without its in-memory list
storeVars == <<history_file, h_pc, h_op, history_data, appends, reader_list,
               reader_shared, appended, last_save, unsaved, concurrent>>

aggVars == <<detections, agg_state, agg_lines, agg_text, prev_text>>

keyVars == <<lookups, produced_by, lookup>>

capVars == <<loaded>>

detectVars == <<recognised, submitted>>

extraVars == <<storeVars, aggVars, keyVars, capVars, detectVars,
               recordVars>>

\* everything outside the loop and the OCR cache but detectVars
sideVars == <<engineVars, transVars, ocrVars, selectVars, budgetVars,
              storeVars, aggVars, keyVars, capVars, recordVars>>

\* everything outside the loop and the OCR cache
restVars == <<engineVars, transVars, ocrVars, selectVars, budgetVars,
              extraVars>>

\* the loop without the history
loopOnlyVars == <<selected_region, is_translating, last_ocr_text,
                  translation_window, translation_thread, main_pc, pc,
                  ocr_text, translated_text, pending, captures,
                  in_flight_failed, stop_returned, stop_seen, display_count,
                  skipped_unchanged>>

loopVars == <<loopOnlyVars, history>>

\* ---- the OCR result cache
\* The clock runs from 0 to MaxTime.
MaxTime == 6
\* Cycle calls in a row that are followed (per selector).
MaxCycles == 3
\* Failed constructions of one OCR engine.
MaxConstructions == 2
\* The clock of the error budget runs from 0 to MaxClock.
MaxClock == 93
\* OCR failures that are followed.
MaxOcrFailures == 4
\* TTLCache(maxsize=100, ttl=5) (models/ocr_model.py) and _cache_timeout
\* (ocr_manager.py, core/ocr/ocr_manager.py), in seconds. The model holds
\* fewer keys than maxsize, so the size bound of TTLCache never evicts.
cache_ttl == 5
Images == {"img1", "img2"}
OcrEngines == {"Tesseract"}
\* cache_key = (image_hash, method, source_lang)
CacheKeys == Images \X OcrEngines \X {"auto"}
\* The engines and source languages a caller of process_image switches
\* between, and every key such a caller can make.
KeyEngines == {"Tesseract", "EasyOCR"}
SourceLangs == {"auto", "en"}
AllCacheKeys == Images \X KeyEngines \X SourceLangs
NoArgs == [image |-> "none"]
NotLoaded == <<"none">>
\* The language settings: the defaults of get_config ("auto", "en") and
\* another pair.
DefaultLangs == [source_lang |-> "auto", target_lang |-> "en"]
LangSettings == {DefaultLangs, [source_lang |-> "en", target_lang |-> "tr"]}
NoRecord == [translated_text |-> "none"]
NoEntry == [at |-> -1]
NoCall == [key |-> "none"]
\* What the OCR engine recognises in an image when the call succeeds.
Recognise(key) == IF key[1] = "img1" THEN "a" ELSE "b"

\* What the translation engine returns for a text when the call succeeds.
Translation(text) == IF text = "a" THEN "A" ELSE "B"

\* TranslationEntry, reduced to the two fields the loop computes.
TranslationEntry(source, translated) ==
    [source_text |-> source, translated_text |-> translated]

\* threading.Thread.is_alive: "none" is a slot whose thread was never started
\* or has returned, "crashed" one whose thread died of an exception.
Alive(t) == pc[t] \notin {"none", "crashed"}

\* ---- the translation engines
\* MAX_RETRIES (models/translation_model.py) and retry(max_retries=3)
\* (core/translation/translation_worker.py).
max_retries == 3

NoEngine == "none"

\* The engine dictionary in the order it is written: TranslationModel
\* __init__ (mvc), TranslationManager.__init__ (legacy and core).
EngineOrder ==
    IF variant = "mvc" THEN <<"Google Translate", "Gemini", "Local API">>
    ELSE <<"Local API", "Gemini", "Google Translate">>

\* GeminiTranslator.__init__ (mvc) assigns self._model on both of its
\* branches: a genai model with an api key, None without one.
GeminiHasModelAttribute == TRUE

\* TranslationModel._is_engine_available: hasattr(engine, "_model") for
\* Gemini, True for the two others. The legacy and core registries hold
\* every engine that was constructed.
IsEngineAvailable(name) ==
    IF variant = "mvc" /\ name = "Gemini" THEN GeminiHasModelAttribute
    ELSE TRUE

\* _check_available_engines: the engines that are not available are removed.
RegisteredEngines == SelectSeq(EngineOrder, IsEngineAvailable)

\* What config.json can hold under translation/engine: the name of an
\* engine, or a name no engine has.
ConfiguredEngines == {"Google Translate", "Gemini", "Local API", "Unknown"}

KeepsConfigured(name) == name

\* the engine the registry starts with: in the mvc program the engine the
\* configuration names (models/translation_model.py 352-358; "Google
\* Translate" is what get_config returns when the key is not set), or the
\* first available one when that one is not available (360-361); 'Local
\* API' (translation_worker.py 100) and 'Gemini' (core).
DefaultEngine(name) ==
    IF variant = "mvc"
    THEN IF \E i \in 1..Len(RegisteredEngines) : RegisteredEngines[i] = name
         THEN name ELSE RegisteredEngines[1]
    ELSE IF variant = "legacy" THEN "Local API" ELSE "Gemini"

\* ---- the OCR engines
\* OCRModel.__init__: _available_engines.
OcrEngineOrder == <<"Tesseract", "EasyOCR", "Windows OCR">>

\* The engines that are constructed on first use: the EasyOCR reader
\* (get_easyocr_reader) and the Tesseract binary (ensure_tesseract).
ConstructedEngines == {"EasyOCR", "Tesseract"}

\* The two engine selectors: TranslationModel and OCRModel.
Selectors == {"translation", "ocr"}

NoSet == [id |-> "none"]

\* ---- the OCR error budget
\* screen_translator.py 52-55
max_errors == 3
error_cooldown == 60
\* self.last_error_time = None
NoTime == 0 - 1

\* ---- the history store
\* The threads that call the store: the worker appends, the Tk main thread
\* clears and reads.
HistoryCallers == {"worker", "main"}

Init ==
    /\ variant \in Variants
    /\ selected_region = FALSE
    /\ is_translating = FALSE
    /\ last_ocr_text = ""
    /\ translation_window = FALSE
    /\ translation_thread = NoThread
    /\ main_pc = "idle"
    /\ pc = [t \in Threads |-> "none"]
    /\ ocr_text = [t \in Threads |-> ""]
    /\ translated_text = [t \in Threads |-> ""]
    /\ history = <<>>
    /\ pending = <<>>
    /\ captures = 0
    /\ in_flight_failed = [t \in Threads |-> FALSE]
    /\ stop_returned = FALSE
    /\ stop_seen = [t \in Threads |-> FALSE]
    /\ display_count = 0
    /\ skipped_unchanged = FALSE
    /\ now = 0
    /\ cache = [k \in AllCacheKeys |-> NoEntry]
    /\ last_compute = [k \in AllCacheKeys |-> NoEntry]
    /\ last_call = NoCall
    /\ gemini_configured = FALSE
    /\ engine_instances = {}
    /\ configured = NoEngine
    /\ available_engines = <<>>
    /\ current_engine = NoEngine
    /\ tr_pc = "idle"
    /\ tr_text = ""
    /\ tr_engine = NoEngine
    /\ attempt = 0
    /\ tr_result = ""
    /\ tr_raised = FALSE
    /\ outcomes = <<>>
    /\ engine_called = FALSE
    /\ ocr_available = OcrEngineOrder
    /\ ocr_current = "Tesseract"
    /\ reader = FALSE
    /\ tesseract_initialized = FALSE
    /\ construction_failures = [e \in ConstructedEngines |-> 0]
    /\ last_set = [kind \in Selectors |-> NoSet]
    /\ cycle_from = [kind \in Selectors |-> NoEngine]
    /\ cycle_count = [kind \in Selectors |-> 0]
    /\ error_count = 0
    /\ last_error_time = NoTime
    /\ error_dialog = FALSE
    /\ ocr_failure_times = <<>>
    /\ history_file = <<>>
    /\ h_pc = [c \in HistoryCallers |-> "idle"]
    /\ h_op = [c \in HistoryCallers |-> "none"]
    /\ history_data = [c \in HistoryCallers |-> <<>>]
    /\ appends = 0
    /\ reader_list = <<>>
    /\ reader_shared = FALSE
    /\ appended = NoEntry
    /\ last_save = [c \in HistoryCallers |-> "none"]
    /\ unsaved = FALSE
    /\ concurrent = FALSE
    /\ detections = <<>>
    /\ agg_state = "idle"
    /\ agg_lines = <<>>
    /\ agg_text = <<>>
    /\ lookups = 0
    /\ produced_by = [k \in AllCacheKeys |-> NoArgs]
    /\ lookup = NoArgs
    /\ loaded = NotLoaded
    /\ recognised = <<>>
    /\ submitted = <<>>
    /\ config_langs = DefaultLangs
    /\ tr_langs = DefaultLangs
    /\ recorded = NoRecord
    /\ prev_text = <<"none">>

\* ------------------------------------------------------------------ mvc
\* controllers/translation_controller.py

IsMvc == variant = "mvc"
MainIdle == main_pc = "idle"
FreeThread(t) == ~Alive(t)

\* select_screen_region: the user selects a region or cancels the selection.
SelectScreenRegion ==
    /\ MainIdle
    /\ \E r \in BOOLEAN : selected_region' = r
    /\ selected_region' # selected_region
    /\ UNCHANGED <<cacheVars, restVars, skipped_unchanged, variant,
                   is_translating, last_ocr_text, translation_window,
                   translation_thread, main_pc, pc, ocr_text, translated_text,
                   history, pending, captures, in_flight_failed,
                   stop_returned, stop_seen, display_count>>

StartsWithoutRegion == TRUE

\* start_translation, lines 75-79: the region check, the flag and the reset
\* of the last accepted text. Without a region it raises ValueError (76),
\* which takes the main thread to the handler of on_start_translation
\* (main_controller.py 189-191).
StartTranslationGuard == selected_region

StartTranslation ==
    /\ IsMvc /\ MainIdle
    /\ IF StartTranslationGuard
       THEN /\ \E t \in Threads : FreeThread(t)
            /\ is_translating' = TRUE
            /\ last_ocr_text' = ""
            /\ main_pc' = "start_window"
            /\ stop_returned' = FALSE
       ELSE /\ main_pc' = "start_error"
            /\ UNCHANGED <<is_translating, last_ocr_text, stop_returned>>
    /\ UNCHANGED <<cacheVars, restVars, skipped_unchanged, variant,
                   selected_region, translation_window,
                   translation_thread, pc, ocr_text, translated_text, history,
                   pending, captures, in_flight_failed, stop_seen,
                   display_count>>

\* on_start_translation, main_controller.py 189-191: the error of
\* start_translation is logged and shown (main_view.show_error opens a
\* message box and returns).
ShowStartError ==
    /\ IsMvc /\ main_pc = "start_error"
    /\ main_pc' = "idle"
    /\ UNCHANGED <<cacheVars, restVars, skipped_unchanged, variant,
                   selected_region, is_translating, last_ocr_text,
                   translation_window, translation_thread, pc, ocr_text,
                   translated_text, history, pending, captures,
                   in_flight_failed, stop_returned, stop_seen, display_count>>

\* start_translation, lines 82-83: _create_translation_window when there is
\* no window.
StartCreateWindow ==
    /\ IsMvc /\ main_pc = "start_window"
    /\ translation_window' = TRUE
    /\ main_pc' = "start_thread"
    /\ UNCHANGED <<cacheVars, restVars, skipped_unchanged, variant,
                   selected_region, is_translating, last_ocr_text,
                   translation_thread, pc, ocr_text, translated_text, history,
                   pending, captures, in_flight_failed, stop_returned,
                   stop_seen, display_count>>

\* start_translation, lines 86-93: the worker thread is created and started.
StartThread ==
    /\ IsMvc /\ main_pc = "start_thread"
    /\ \E t \in Threads :
        /\ FreeThread(t)
        /\ \A u \in Threads : FreeThread(u) => t <= u
        /\ translation_thread' = t
        /\ pc' = [pc EXCEPT ![t] = "loop"]
        /\ ocr_text' = [ocr_text EXCEPT ![t] = ""]
        /\ translated_text' = [translated_text EXCEPT ![t] = ""]
        /\ in_flight_failed' = [in_flight_failed EXCEPT ![t] = FALSE]
        /\ stop_seen' = [stop_seen EXCEPT ![t] = FALSE]
    /\ main_pc' = "idle"
    /\ UNCHANGED <<cacheVars, restVars, skipped_unchanged, variant,
                   selected_region, is_translating, last_ocr_text,
                   translation_window, history, pending, captures,
                   stop_returned, display_count>>

\* stop_translation on the main thread, lines 97-102: the flag is cleared and
\* the thread joined for at most 0.1 s, so a worker inside a call outlives
\* the join.
StopTranslation ==
    /\ IsMvc /\ MainIdle
    /\ is_translating' = FALSE
    /\ stop_seen' = [t \in Threads |-> stop_seen[t] \/ Alive(t)]
    /\ main_pc' = "stop_window"
    /\ UNCHANGED <<cacheVars, restVars, skipped_unchanged, variant,
                   selected_region, last_ocr_text, translation_window,
                   translation_thread, pc, ocr_text, translated_text, history,
                   pending, captures, in_flight_failed,
                   stop_returned, display_count>>

\* stop_translation on the main thread, lines 104-113: the window is
\* destroyed and the call returns.
StopDestroyWindow ==
    /\ IsMvc /\ main_pc = "stop_window"
    /\ translation_window' = FALSE
    /\ main_pc' = "idle"
    /\ stop_returned' = TRUE
    /\ UNCHANGED <<cacheVars, restVars, skipped_unchanged, variant,
                   selected_region, is_translating, last_ocr_text,
                   translation_thread, pc, ocr_text, translated_text, history,
                   pending, captures, in_flight_failed, stop_seen,
                   display_count>>

\* _do_update_text, the callback _update_translation_window schedules with
\* after_idle: it writes the text when the window still exists.
DoUpdateText ==
    /\ IsMvc /\ MainIdle
    /\ pending # <<>>
    /\ pending' = Tail(pending)
    /\ UNCHANGED <<cacheVars, restVars, skipped_unchanged, variant,
                   selected_region, is_translating, last_ocr_text,
                   translation_window, translation_thread, main_pc, pc,
                   ocr_text, translated_text, history, captures,
                   in_flight_failed, stop_returned, stop_seen, display_count>>

\* ---- the worker thread: _run_async_worker -> _translation_worker

\* The thread of worker t ends: its locals are gone.
EndThread(t, how) ==
    /\ pc' = [pc EXCEPT ![t] = how]
    /\ ocr_text' = [ocr_text EXCEPT ![t] = ""]
    /\ translated_text' = [translated_text EXCEPT ![t] = ""]
    /\ in_flight_failed' = [in_flight_failed EXCEPT ![t] = FALSE]
    /\ stop_seen' = [stop_seen EXCEPT ![t] = FALSE]

\* The iteration of worker t ends (asyncio.sleep(0.1), then the loop test).
EndIteration(t, failed) ==
    /\ pc' = [pc EXCEPT ![t] = "loop"]
    /\ ocr_text' = [ocr_text EXCEPT ![t] = ""]
    /\ translated_text' = [translated_text EXCEPT ![t] = ""]
    /\ in_flight_failed' = [in_flight_failed EXCEPT ![t] = failed]

\* line 246, while self.is_translating: the cooperative cancellation point.
\* A worker that finds the flag cleared returns and its thread ends.
WorkerLoopTest(t) ==
    /\ IsMvc /\ pc[t] = "loop"
    /\ IF is_translating
       THEN /\ pc' = [pc EXCEPT ![t] = "check_window"]
            /\ in_flight_failed' = [in_flight_failed EXCEPT ![t] = FALSE]
            /\ UNCHANGED <<ocr_text, translated_text, stop_seen>>
       ELSE EndThread(t, "none")
    /\ UNCHANGED <<cacheVars, restVars, skipped_unchanged, variant,
                   selected_region, is_translating, last_ocr_text,
                   translation_window, translation_thread, main_pc,
                   history, pending, captures, stop_returned, display_count>>

\* _check_translation_window, lines 165-173: without a window the worker
\* calls stop_translation itself and leaves the loop. With a window it
\* captures the region (_capture_region, lines 285-300): a failed capture
\* (None or an exception) is retried after 0.1 s (lines 251-256).
CheckTranslationWindow(t) ==
    /\ IsMvc /\ pc[t] = "check_window"
    /\ IF translation_window
       THEN /\ captures < MaxCaptures
            /\ captures' = captures + 1
            /\ \E ok \in BOOLEAN :
                pc' = [pc EXCEPT ![t] = IF ok THEN "ocr" ELSE "loop"]
       ELSE /\ captures' = captures
            /\ pc' = [pc EXCEPT ![t] = "wstop_flag"]
    /\ UNCHANGED <<cacheVars, restVars, skipped_unchanged, variant,
                   selected_region, is_translating, last_ocr_text,
                   translation_window, translation_thread, main_pc, ocr_text,
                   translated_text, history, pending,
                   in_flight_failed, stop_returned, stop_seen, display_count>>

\* stop_translation called on the worker thread, lines 97-102. Joining the
\* current thread raises RuntimeError, which leaves _translation_worker
\* through its except clause (lines 279-283) and ends the thread.
WorkerStopFlag(t) ==
    /\ IsMvc /\ pc[t] = "wstop_flag"
    /\ is_translating' = FALSE
    /\ IF is_translating /\ translation_thread = t
       THEN EndThread(t, "crashed")
       ELSE /\ pc' = [pc EXCEPT ![t] = "wstop_window"]
            /\ UNCHANGED <<ocr_text, translated_text, in_flight_failed,
                           stop_seen>>
    /\ UNCHANGED <<cacheVars, restVars, skipped_unchanged, variant,
                   selected_region, last_ocr_text, translation_window,
                   translation_thread, main_pc, history, pending, captures,
                   stop_returned, display_count>>

\* stop_translation called on the worker thread, lines 104-113; the caller
\* then returns False and the worker breaks out of its loop.
WorkerStopWindow(t) ==
    /\ IsMvc /\ pc[t] = "wstop_window"
    /\ translation_window' = FALSE
    /\ EndThread(t, "none")
    /\ UNCHANGED <<cacheVars, restVars, skipped_unchanged, variant,
                   selected_region, is_translating, last_ocr_text,
                   translation_thread, main_pc, history, pending, captures,
                   stop_returned, display_count>>

\* line 186 (mvc) and line 652 (legacy): the change detection.
NoDedupe(text) == text # ""

DiffersFromLast(text) == text # last_ocr_text

IsNewText(text) == text # "" /\ text # last_ocr_text

ForgetsText(text) == ""

\* line 189 (mvc) and line 653 (legacy): the text that is remembered as
\* the last accepted one when a new text goes to the translation call.
LastAccepted(text) == text

\* _process_and_translate, lines 179-189: the OCR call returns the recognised
\* text (OCRManager.process_image returns "" when it fails); an empty or
\* unchanged text ends the iteration, a new text is accepted before the
\* translation call is made.
ProcessImage(t) ==
    /\ IsMvc /\ pc[t] = "ocr"
    /\ \E text \in Texts \cup {""} :
        IF IsNewText(text)
        THEN /\ last_ocr_text' = LastAccepted(text)
             /\ ocr_text' = [ocr_text EXCEPT ![t] = text]
             /\ pc' = [pc EXCEPT ![t] = "translate"]
             /\ UNCHANGED <<translated_text, in_flight_failed,
                            skipped_unchanged>>
        ELSE /\ last_ocr_text' = last_ocr_text
             /\ skipped_unchanged' = (skipped_unchanged \/ text # "")
             /\ EndIteration(t, FALSE)
    /\ UNCHANGED <<cacheVars, restVars, variant, selected_region, is_translating,
                   translation_window, translation_thread, main_pc,
                   history, pending, captures, stop_returned, stop_seen,
                   display_count>>

TranslationSucceeded(text) == text # ""

\* lines 190-200 with _translate_text (302-312) and TranslationModel.translate
\* (models/translation_model.py 454-488): the call returns the translation,
\* or "" / None when the engine failed or raised, which ends the iteration.
\* A translation goes to _update_window_and_history, lines 208-216: without
\* a window the result is dropped, stop_translation is called and the worker
\* leaves the loop.
TranslateText(t) ==
    /\ IsMvc /\ pc[t] = "translate"
    /\ \E result \in {Translation(ocr_text[t]), ""} :
        IF TranslationSucceeded(result)
        THEN /\ translated_text' = [translated_text EXCEPT ![t] = result]
             /\ in_flight_failed' =
                    [in_flight_failed EXCEPT ![t] = (result = "")]
             /\ pc' = [pc EXCEPT ![t] = IF translation_window
                                        THEN "update_window" ELSE "wstop_flag"]
             /\ UNCHANGED ocr_text
        ELSE EndIteration(t, TRUE)
    /\ UNCHANGED <<cacheVars, restVars, skipped_unchanged, variant,
                   selected_region, is_translating, last_ocr_text,
                   translation_window, translation_thread, main_pc,
                   history, pending, captures, stop_returned,
                   stop_seen, display_count>>

\* _update_translation_window, lines 371-392, called at line 222: the display
\* update is scheduled with after_idle when the window exists; the value it
\* returns is not looked at by the caller.
UpdateTranslationWindow(t) ==
    /\ IsMvc /\ pc[t] = "update_window"
    /\ IF translation_window
       THEN /\ pending' = Append(pending, translated_text[t])
            /\ display_count' = display_count + 1
       ELSE /\ pending' = pending
            /\ display_count' = display_count
    /\ pc' = [pc EXCEPT ![t] = "add_history"]
    /\ UNCHANGED <<cacheVars, restVars, skipped_unchanged, variant,
                   selected_region, is_translating, last_ocr_text,
                   translation_window, translation_thread, main_pc, ocr_text,
                   translated_text, history, captures,
                   in_flight_failed, stop_returned, stop_seen>>

\* lines 224-237 with TranslationModel.add_to_history
\* (models/translation_model.py 490-508): the entry is appended.
AddToHistory(t) ==
    /\ IsMvc /\ pc[t] = "add_history"
    /\ history' = Append(history,
                         TranslationEntry(ocr_text[t], translated_text[t]))
    /\ EndIteration(t, FALSE)
    /\ UNCHANGED <<cacheVars, restVars, skipped_unchanged, variant,
                   selected_region, is_translating, last_ocr_text,
                   translation_window, translation_thread, main_pc,
                   pending, captures, stop_returned, stop_seen, display_count>>

MvcWorker ==
    \E t \in Threads :
        \/ WorkerLoopTest(t)
        \/ CheckTranslationWindow(t)
        \/ WorkerStopFlag(t)
        \/ WorkerStopWindow(t)
        \/ ProcessImage(t)
        \/ TranslateText(t)
        \/ UpdateTranslationWindow(t)
        \/ AddToHistory(t)

\* --------------------------------------------------------------- legacy
\* screen_translator.py

IsLegacy == variant = "legacy"

\* TranslationHistory.max_entries (translation_history.py).
max_entries == 100

AddEntryKeepOldest(h, entry) ==
    LET all == <<entry>> \o h
    IN  IF Len(all) > max_entries
        THEN SubSeq(all, Len(all) - max_entries + 1, Len(all)) ELSE all

\* TranslationHistory.add_entry, translation_history.py 37-54: the newest
\* entry is put first and the list is cut to max_entries.
AddEntry(h, entry) ==
    LET all == <<entry>> \o h
    IN  IF Len(all) > max_entries THEN SubSeq(all, 1, max_entries) ELSE all

\* toggle_translation (516-536) when not translating: start_translation
\* (538-544) sets the flag and starts a worker thread. previous_text is
\* not reset.
LegacyStartTranslation ==
    /\ IsLegacy /\ MainIdle
    /\ selected_region /\ ~is_translating
    /\ is_translating' = TRUE
    /\ stop_returned' = FALSE
    /\ \E t \in Threads :
        /\ FreeThread(t)
        /\ \A u \in Threads : FreeThread(u) => t <= u
        /\ translation_thread' = t
        /\ pc' = [pc EXCEPT ![t] = "loop"]
    /\ UNCHANGED <<cacheVars, restVars, skipped_unchanged, variant,
                   selected_region, last_ocr_text, translation_window,
                   main_pc, ocr_text, translated_text, history, pending,
                   captures, in_flight_failed, stop_seen, display_count>>

\* stop_translation (546-551), reached from toggle_translation while
\* translating and from the translation window's close button: the flag is
\* cleared and the window destroyed; the worker thread is not joined.
LegacyStopTranslation ==
    /\ IsLegacy /\ MainIdle
    /\ (selected_region /\ is_translating) \/ translation_window
    /\ is_translating' = FALSE
    /\ translation_window' = FALSE
    /\ stop_seen' = [t \in Threads |-> stop_seen[t] \/ Alive(t)]
    /\ stop_returned' = TRUE
    /\ UNCHANGED <<cacheVars, restVars, skipped_unchanged, variant,
                   selected_region, last_ocr_text, translation_thread,
                   main_pc, pc, ocr_text, translated_text, history, pending,
                   captures, in_flight_failed, display_count>>

\* update_translation_display (697-704), the callback the worker schedules
\* with root.after: it creates the translation window when there is none and
\* writes the text.
LegacyUpdateTranslationDisplay ==
    /\ IsLegacy /\ MainIdle
    /\ pending # <<>>
    /\ translation_window' = TRUE
    /\ pending' = Tail(pending)
    /\ UNCHANGED <<cacheVars, restVars, skipped_unchanged, variant,
                   selected_region, is_translating, last_ocr_text,
                   translation_thread, main_pc, pc, ocr_text, translated_text,
                   history, captures, in_flight_failed, stop_returned,
                   stop_seen, display_count>>

\* The except clause of translation_worker (675-679): an error dialog is
\* scheduled, stop_translation is called on the worker thread and the loop
\* is left.
LegacyWorkerFails(t) ==
    /\ is_translating' = FALSE
    /\ translation_window' = FALSE
    /\ EndThread(t, "none")

\* translation_worker, lines 647-649: the loop test, then the screenshot.
\* ImageGrab.grab raising is caught by the except clause of the loop.
LegacyWorkerLoopTest(t) ==
    /\ IsLegacy /\ pc[t] = "loop"
    /\ IF is_translating
       THEN /\ captures < MaxCaptures
            /\ captures' = captures + 1
            /\ \E ok \in BOOLEAN :
                IF ok
                THEN /\ pc' = [pc EXCEPT ![t] = "ocr"]
                     /\ in_flight_failed' =
                            [in_flight_failed EXCEPT ![t] = FALSE]
                     /\ UNCHANGED <<ocr_text, translated_text, stop_seen,
                                    is_translating, translation_window>>
                ELSE LegacyWorkerFails(t)
       ELSE /\ EndThread(t, "none")
            /\ UNCHANGED <<captures, is_translating, translation_window>>
    /\ UNCHANGED <<cacheVars, restVars, skipped_unchanged, variant,
                   selected_region, last_ocr_text,
                   translation_thread, main_pc, history, pending,
                   stop_returned, display_count>>

\* lines 650-653: _process_ocr returns the recognised text
\* (OCRManager.process_image, ocr_manager.py 58-79, returns "" when it
\* fails and never raises, so _process_ocr 559-561 sets error_count to 0;
\* what _process_ocr does with a raising process_image is in
\* LegacyOcrIteration); a new text is accepted, anything else ends the
\* iteration (time.sleep(0.5)).
LegacyProcessOcr(t) ==
    /\ IsLegacy /\ pc[t] = "ocr"
    /\ \E text \in Texts \cup {""} :
        IF IsNewText(text)
        THEN /\ last_ocr_text' = LastAccepted(text)
             /\ ocr_text' = [ocr_text EXCEPT ![t] = text]
             /\ pc' = [pc EXCEPT ![t] = "translate"]
             /\ UNCHANGED <<translated_text, in_flight_failed,
                            skipped_unchanged>>
        ELSE /\ last_ocr_text' = last_ocr_text
             /\ skipped_unchanged' = (skipped_unchanged \/ text # "")
             /\ EndIteration(t, FALSE)
    /\ error_count' = 0
    /\ UNCHANGED <<cacheVars, engineVars, transVars, ocrVars, selectVars,
                   extraVars,
                   last_error_time, error_dialog, ocr_failure_times,
                   variant, selected_region, is_translating,
                   translation_window, translation_thread, main_pc,
                   history, pending, captures, stop_returned, stop_seen,
                   display_count>>

\* lines 654-668: translate_text (translation_worker.py 109-123) returns the
\* translation, or "" when the engine reported a failure, or lets an error
\* the engine did not catch escape; whatever it returned is put in the
\* history (add_entry).
LegacyTranslateText(t) ==
    /\ IsLegacy /\ pc[t] = "translate"
    /\ \E outcome \in {"text", "empty", "raise"} :
        IF outcome = "raise"
        THEN /\ LegacyWorkerFails(t)
             /\ UNCHANGED history
        ELSE LET result == IF outcome = "text"
                           THEN Translation(ocr_text[t]) ELSE ""
             IN  /\ translated_text' = [translated_text EXCEPT ![t] = result]
                 /\ in_flight_failed' =
                        [in_flight_failed EXCEPT ![t] = (result = "")]
                 /\ history' =
                        AddEntry(history, TranslationEntry(ocr_text[t], result))
                 /\ pc' = [pc EXCEPT ![t] = "display"]
                 /\ UNCHANGED <<ocr_text, stop_seen, is_translating,
                                translation_window>>
    /\ UNCHANGED <<cacheVars, restVars, skipped_unchanged, variant,
                   selected_region, last_ocr_text,
                   translation_thread, main_pc, pending, captures,
                   stop_returned, display_count>>

\* lines 670-673: the display update is scheduled on the main thread.
LegacyScheduleDisplay(t) ==
    /\ IsLegacy /\ pc[t] = "display"
    /\ pending' = Append(pending, translated_text[t])
    /\ display_count' = display_count + 1
    /\ pc' = [pc EXCEPT ![t] = "loop"]
    /\ ocr_text' = [ocr_text EXCEPT ![t] = ""]
    /\ translated_text' = [translated_text EXCEPT ![t] = ""]
    /\ UNCHANGED <<cacheVars, restVars, skipped_unchanged, variant,
                   selected_region, is_translating, last_ocr_text,
                   translation_window, translation_thread, main_pc, history,
                   captures, in_flight_failed, stop_returned, stop_seen>>

LegacyWorker ==
    \E t \in Threads :
        \/ LegacyWorkerLoopTest(t)
        \/ LegacyProcessOcr(t)
        \/ LegacyTranslateText(t)
        \/ LegacyScheduleDisplay(t)

\* ------------------------------------------------------- the OCR cache
\* OCRManager.process_image: models/ocr_model.py 121-143 (the mvc program,
\* a cachetools TTLCache) and ocr_manager.py 58-79, which
\* core/ocr/ocr_manager.py 57-78 repeats (the legacy program, a dict of
\* (time, result) pairs).

\* time passes
Tick ==
    /\ now < MaxTime
    /\ now' = now + 1
    /\ UNCHANGED <<variant, loopVars, restVars, cache, last_compute, last_call>>

\* TTLCache.__contains__ (timer() < expires, expires = time of the store +
\* ttl) and ocr_manager.py line 67 (time.time() - cached_time < 5).
NeverExpires(entry) == entry # NoEntry

IsFresh(entry) == entry # NoEntry /\ now - entry.at < cache_ttl

StoreAfterFailure(entry) ==
    IF variant = "mvc" THEN [at |-> now, result |-> ""] ELSE entry

\* TTLCache drops the expired entries whenever an item is stored; the dict
\* of the legacy program keeps them until they are overwritten.
Expire(c) ==
    IF variant = "mvc"
    THEN [k \in DOMAIN c |-> IF IsFresh(c[k]) THEN c[k] ELSE NoEntry]
    ELSE c

\* process_image(image, method, source_lang) with cache key k; failed says
\* whether the OCR engine raises if it is run.
CacheProcessImage(k, failed) ==
    IF IsFresh(cache[k])
    THEN /\ last_call' = [key |-> k, at |-> now, ran |-> FALSE,
                          failed |-> FALSE, raised |-> FALSE,
                          result |-> cache[k].result,
                          before |-> last_compute[k]]
         /\ UNCHANGED <<cache, last_compute>>
    ELSE LET result == IF failed THEN "" ELSE Recognise(k)
             entry == IF failed THEN StoreAfterFailure(cache[k])
                      ELSE [at |-> now, result |-> result]
         IN  /\ cache' = Expire([cache EXCEPT ![k] = entry])
             /\ last_compute' = [last_compute EXCEPT ![k] =
                    [at |-> now, failed |-> failed, result |-> result]]
             /\ last_call' = [key |-> k, at |-> now, ran |-> TRUE,
                              failed |-> failed, raised |-> FALSE,
                              result |-> result,
                              before |-> last_compute[k]]

OcrProcessImage ==
    /\ \E k \in CacheKeys, failed \in BOOLEAN : CacheProcessImage(k, failed)
    /\ UNCHANGED <<variant, loopVars, restVars, now>>

CacheNext ==
    \/ Tick
    \/ OcrProcessImage

SpecCache == Init /\ [][CacheNext]_vars

\* ---- the cache key
\* process_image calls that are followed with their arguments.
MaxLookups == 3
\* The screenshots: two different image contents.
Screenshots == {"frame1", "frame2"}

\* hash(image.tobytes()) (ocr_manager.py 61, core/ocr/ocr_manager.py 60) and
\* hash((image.tobytes(), subtitle_mode)) (models/ocr_model.py 126), where
\* every caller leaves subtitle_mode at its default: the hash of a
\* screenshot's bytes, which differs for the two screenshots followed.
ImageHash(image) == IF image = "frame1" THEN "img1" ELSE "img2"

KeyWithoutEngine(image, method, source_lang) ==
    <<ImageHash(image), "Tesseract", source_lang>>

\* cache_key = (image_hash, method, source_lang): models/ocr_model.py 127,
\* ocr_manager.py 64, core/ocr/ocr_manager.py 63.
CacheKey(image, method, source_lang) ==
    <<ImageHash(image), method, source_lang>>

Args(image, method, source_lang) ==
    [image |-> image, method |-> method, source_lang |-> source_lang]

\* The loop's call of process_image with the screenshot, the OCR engine and
\* the source language that are current: OCRModel.process_image 39-49 from
\* controllers/translation_controller.py 183 (mvc), _process_ocr in
\* screen_translator.py 555-559 (legacy) and in
\* ui/controllers/translation_controller.py 262-266 (core). Between two
\* calls the user may have switched the engine or the language and the
\* screen may have changed, so each call takes any of them.
OcrModelProcessImage ==
    /\ lookups < MaxLookups
    /\ lookups' = lookups + 1
    /\ \E image \in Screenshots, method \in KeyEngines,
          source_lang \in SourceLangs, failed \in BOOLEAN :
        LET k == CacheKey(image, method, source_lang)
            args == Args(image, method, source_lang)
        IN  /\ CacheProcessImage(k, failed)
            /\ produced_by' =
                   [j \in AllCacheKeys |->
                       IF cache'[j] = NoEntry THEN NoArgs
                       ELSE IF j = k /\ cache'[j] # cache[j] THEN args
                       ELSE produced_by[j]]
            /\ lookup' = [image |-> image, method |-> method,
                          source_lang |-> source_lang,
                          from_cache |-> IsFresh(cache[k]),
                          producer |-> produced_by[k],
                          after |-> IF lookup = NoArgs THEN NoArgs
                                    ELSE Args(lookup.image, lookup.method,
                                              lookup.source_lang),
                          after_fresh |->
                              /\ lookup # NoArgs
                              /\ IsFresh(cache[CacheKey(lookup.image,
                                     lookup.method, lookup.source_lang)])]
    /\ UNCHANGED <<variant, loopVars, engineVars, transVars, ocrVars,
                   selectVars, budgetVars, storeVars, aggVars, capVars,
                   detectVars, recordVars, now>>

KeyNext ==
    \/ OcrModelProcessImage

SpecCacheKey == Init /\ [][KeyNext]_vars

\* ------------------------------------------------ the translation engines
\* models/translation_model.py (mvc), translation_worker.py (legacy) and
\* core/translation/translation_worker.py (core).

\* Texts handed to translate: one with content and two that are empty after
\* trimming.
TrTexts == {"a", " ", ""}

\* str.strip, on the texts above.
Strip(text) == IF text = " " THEN "" ELSE text

\* What one outbound call of an engine can do: answer well, fail to
\* connect, answer with an HTTP error status, answer with a body that has
\* not the expected structure.
Outcomes == {"ok", "connect_error", "http_error", "malformed"}

NeverBlank(text) == FALSE

\* translate: "if not text.strip()" (models/translation_model.py 458,
\* translation_worker.py 110, core 143).
IsBlank(text) == Strip(text) = ""

AnyErrorTransient(outcome) == outcome # "ok"

\* GoogleTranslator._make_request (mvc): the retry loop handles
\* aiohttp.ClientConnectorError and nothing else.
IsTransient(outcome) == outcome = "connect_error"

\* The engine has a retry loop around its outbound call: _make_request of
\* the mvc GoogleTranslator, the retry() decorator on every translate of
\* core. translation_worker.py has none.
HasRetryLayer ==
    \/ variant = "mvc" /\ tr_engine = "Google Translate"
    \/ variant = "core"

\* What the code inside the retry loop makes of one outbound call:
\*   "text"    it returns the translation
\*   "none"    it returns None
\*   "connect" it raises the exception the retry loop catches
\*   "raise"   it raises another exception
\* mvc GoogleTranslator._make_request 147-178: a connection error is for the
\* loop, a body that is no JSON gives None, any other error is raised; a
\* JSON body of the wrong shape gives None in _extract_translation 128-141
\* or in translate 216-218. mvc GeminiTranslator 254-267 and
\* LocalAPITranslator 283-327 catch every exception and return None.
\* legacy and core: the translate functions catch requests.RequestException
\* themselves (connection and HTTP errors) and return None, so nothing
\* reaches the decorator; a body of the wrong shape raises AttributeError,
\* KeyError or TypeError, which nobody catches. Gemini catches everything.
InnerResult(outcome) ==
    IF outcome = "ok" THEN "text"
    ELSE IF variant = "mvc"
    THEN IF tr_engine = "Google Translate"
         THEN IF IsTransient(outcome) THEN "connect"
              ELSE IF outcome = "malformed" THEN "none" ELSE "raise"
         ELSE "none"
    ELSE IF tr_engine = "Gemini" THEN "none"
         ELSE IF outcome = "malformed" THEN "raise" ELSE "none"

CatchesNothing == FALSE

\* TranslationModel.translate 462-488: the engine lookup and the engine call
\* are inside "try ... except Exception: return ''". TranslationManager
\* .translate of the two other programs has no except clause.
TranslateCatches == variant = "mvc"

\* The translate call on text ends. kind is what the engine made of its
\* last outbound call. mvc: GoogleTranslator.translate 205-226 and
\* TranslationModel.translate 484-488 turn every exception into "no
\* translation"; legacy and core: "engine.translate(...) or ''" lets an
\* exception through.
TranslateReturns(kind, text) ==
    /\ tr_pc' = "done"
    /\ tr_result' = IF kind = "text" THEN Translation(text) ELSE ""
    /\ tr_raised' = (kind = "raise" /\ ~TranslateCatches)

\* TranslationModel.__init__ 331-365 (mvc) and TranslationManager.__init__
\* (translation_worker.py 94-100, core 125-132), run once when the program
\* starts. key says whether GEMINI_API_KEY is set. Without it the mvc
\* GeminiTranslator is built with _model = None; the GeminiTranslator of
\* the two other programs raises ValueError (translation_worker.py 34-36,
\* core 56-58), no registry exists and the program does not start.
BuildRegistry ==
    /\ available_engines = <<>>
    /\ \E key \in BOOLEAN :
        /\ variant # "mvc" => key
        /\ gemini_configured' = key
    /\ available_engines' = RegisteredEngines
    /\ engine_instances' = {RegisteredEngines[i] : i \in 1..Len(RegisteredEngines)}
    /\ \E name \in ConfiguredEngines :
        /\ variant # "mvc" => name = "Google Translate"
        /\ configured' = IF variant = "mvc" THEN name ELSE NoEngine
        /\ current_engine' = DefaultEngine(name)
    /\ UNCHANGED <<variant, loopVars, cacheVars, budgetVars, extraVars, transVars, ocrVars,
                   selectVars>>

\* TranslationModel.translate 454-488, TranslationManager.translate
\* (translation_worker.py 109-114, core 142-147) up to the first outbound
\* call of the engine.
TranslateCall ==
    /\ available_engines # <<>>
    /\ tr_pc \in {"idle", "done"}
    /\ tr_langs' = config_langs
    /\ \E text \in TrTexts :
        /\ tr_text' = text
        /\ attempt' = 0
        /\ outcomes' = <<>>
        /\ IF IsBlank(text)
           THEN /\ engine_called' = FALSE
                /\ tr_engine' = NoEngine
                /\ TranslateReturns("none", text)
           ELSE /\ engine_called' = TRUE
                /\ tr_engine' = current_engine
                /\ IF \/ current_engine \notin engine_instances
                      \/ /\ variant = "mvc" /\ current_engine = "Gemini"
                         /\ ~gemini_configured
                   THEN \* 462-470: no instance under the current name
                        \* (ValueError; KeyError in the two other
                        \* programs); GeminiTranslator.translate 249-250:
                        \* no model
                        TranslateReturns("raise", text)
                   ELSE /\ tr_pc' = "attempt"
                        /\ tr_result' = ""
                        /\ tr_raised' = FALSE
    /\ UNCHANGED <<variant, loopVars, cacheVars, budgetVars, extraVars, engineVars, ocrVars,
                   selectVars>>

\* One outbound call of the engine and what follows it: the next round of
\* the retry loop, or the end of translate.
TranslateAttempt ==
    /\ tr_pc = "attempt"
    /\ \E outcome \in Outcomes :
        LET kind == InnerResult(outcome)
        IN  /\ outcomes' = Append(outcomes, outcome)
            /\ IF kind = "connect" /\ HasRetryLayer
                                   /\ attempt < max_retries - 1
               THEN /\ attempt' = attempt + 1
                    /\ UNCHANGED <<tr_pc, tr_result, tr_raised>>
               ELSE /\ attempt' = attempt
                    /\ TranslateReturns(IF kind = "connect" THEN "none"
                                        ELSE kind, tr_text)
    /\ UNCHANGED <<variant, loopVars, cacheVars, budgetVars, extraVars, engineVars, ocrVars,
                   selectVars, tr_text, tr_engine, engine_called, tr_langs>>

\* ---- engine selection
\* The ids a selector can be called with: the engines and one id that names
\* no engine.
EngineIds == {"Google Translate", "Gemini", "Local API", "Unknown"}

OcrEngineIds == {"Tesseract", "EasyOCR", "Windows OCR", "Unknown"}

AcceptAny(id, engines) == TRUE

\* "engine_name in self._available_engines" (models/translation_model.py
\* 441, models/ocr_model.py 54), "engine_name in self.engines"
\* (translation_worker.py 103, core 136).
IsAvailable(id, engines) == \E i \in 1..Len(engines) : engines[i] = id

StayAtEnd(i, n) == IF i + 1 < n THEN i + 1 ELSE i

\* next_index = (current_index + 1) % len(engines), indices from 0.
NextIndex(i, n) == (i + 1) % n

\* TranslationModel.set_translation_engine 439-452: an unknown id raises
\* ValueError; a known one that differs from the current engine becomes the
\* current engine and the observers are notified. TranslationManager
\* .set_engine (translation_worker.py 102-107, core 135-140): a known id
\* becomes the current engine, an unknown one is logged; there are no
\* observers.
TranslationSetEngine(id) ==
    LET accepted == IsAvailable(id, available_engines)
    IN  /\ current_engine' = IF accepted THEN id ELSE current_engine
        /\ last_set' = [last_set EXCEPT !["translation"] =
               [id |-> id, engines |-> available_engines,
                before |-> current_engine,
                notified |-> (variant = "mvc" /\ accepted
                                              /\ id # current_engine),
                raised |-> (variant = "mvc" /\ ~accepted)]]

\* A direct selection of the translation engine (the settings panel, or any
\* caller of the model); the main thread may make it while the worker is
\* inside translate.
SetTranslationEngine ==
    /\ available_engines # <<>>
    /\ \E id \in EngineIds : TranslationSetEngine(id)
    /\ cycle_from' = [cycle_from EXCEPT !["translation"] = current_engine']
    /\ cycle_count' = [cycle_count EXCEPT !["translation"] = 0]
    /\ UNCHANGED <<variant, loopVars, cacheVars, budgetVars, extraVars, transVars, ocrVars,
                   gemini_configured, available_engines,
                   engine_instances, configured>>

\* TranslationController.cycle_translation_engine 349-357 (mvc), through
\* change_translation_engine 327-335.
CycleTranslationEngine ==
    /\ IsMvc
    /\ cycle_count["translation"] < MaxCycles
    /\ \E i \in 1..Len(available_engines) :
        /\ available_engines[i] = current_engine
        /\ TranslationSetEngine(
               available_engines[NextIndex(i - 1, Len(available_engines)) + 1])
    /\ cycle_from' = [cycle_from EXCEPT !["translation"] =
           IF cycle_count["translation"] = 0 THEN current_engine ELSE @]
    /\ cycle_count' = [cycle_count EXCEPT !["translation"] = @ + 1]
    /\ UNCHANGED <<variant, loopVars, cacheVars, budgetVars, extraVars, transVars, ocrVars,
                   gemini_configured, available_engines,
                   engine_instances, configured>>

\* OCRModel.set_engine 52-58: a known id becomes the current engine and the
\* observers are notified; an unknown one raises ValueError.
OcrSetEngine(id) ==
    LET accepted == IsAvailable(id, ocr_available)
    IN  /\ ocr_current' = IF accepted THEN id ELSE ocr_current
        /\ last_set' = [last_set EXCEPT !["ocr"] =
               [id |-> id, engines |-> ocr_available,
                before |-> ocr_current,
                notified |-> accepted,
                raised |-> ~accepted]]

\* A direct selection of the OCR engine (change_ocr_engine 337-345).
SetOcrEngine ==
    /\ IsMvc
    /\ \E id \in OcrEngineIds : OcrSetEngine(id)
    /\ cycle_from' = [cycle_from EXCEPT !["ocr"] = ocr_current']
    /\ cycle_count' = [cycle_count EXCEPT !["ocr"] = 0]
    /\ UNCHANGED <<variant, loopVars, cacheVars, budgetVars, extraVars, transVars, engineVars,
                   ocr_available, reader, tesseract_initialized,
                   construction_failures>>

\* OCRModel.cycle_engine 68-74.
CycleOcrEngine ==
    /\ IsMvc
    /\ cycle_count["ocr"] < MaxCycles
    /\ \E i \in 1..Len(ocr_available) :
        /\ ocr_available[i] = ocr_current
        /\ OcrSetEngine(
               ocr_available[NextIndex(i - 1, Len(ocr_available)) + 1])
    /\ cycle_from' = [cycle_from EXCEPT !["ocr"] =
           IF cycle_count["ocr"] = 0 THEN ocr_current ELSE @]
    /\ cycle_count' = [cycle_count EXCEPT !["ocr"] = @ + 1]
    /\ UNCHANGED <<variant, loopVars, cacheVars, budgetVars, extraVars, transVars, engineVars,
                   ocr_available, reader, tesseract_initialized,
                   construction_failures>>

\* OCRManager._perform_ocr 183-196 with the current engine, as far as the
\* construction of the engine goes. EasyOCR: _perform_easyocr 198-206 calls
\* get_easyocr_reader 87-111 when there is no reader; a failed construction
\* leaves _reader None. Tesseract: ensure_tesseract 113-119 probes the
\* binary unless it was found before. built says whether the construction
\* succeeds if it is attempted. Windows OCR constructs nothing.
PerformOcr ==
    /\ IsMvc
    /\ \E built \in BOOLEAN :
        /\ ~built => \A e \in ConstructedEngines :
                         construction_failures[e] < MaxConstructions
        /\ IF ocr_current = "EasyOCR" /\ ~reader
           THEN /\ reader' = built
                /\ construction_failures' =
                       [construction_failures EXCEPT
                           !["EasyOCR"] = IF built THEN @ ELSE @ + 1]
                /\ UNCHANGED tesseract_initialized
           ELSE IF ocr_current = "Tesseract" /\ ~tesseract_initialized
           THEN /\ tesseract_initialized' = built
                /\ construction_failures' =
                       [construction_failures EXCEPT
                           !["Tesseract"] = IF built THEN @ ELSE @ + 1]
                /\ UNCHANGED reader
           ELSE UNCHANGED <<reader, tesseract_initialized,
                            construction_failures>>
    /\ UNCHANGED <<variant, loopVars, cacheVars, budgetVars, extraVars, transVars, engineVars,
                   selectVars, ocr_available, ocr_current>>

EnginesNext ==
    \/ BuildRegistry
    \/ SetTranslationEngine
    \/ CycleTranslationEngine
    \/ SetOcrEngine
    \/ CycleOcrEngine
    \/ PerformOcr

SpecEngines == Init /\ [][EnginesNext]_vars

TranslateNext ==
    \/ BuildRegistry
    \/ TranslateCall
    \/ TranslateAttempt
    \/ SetTranslationEngine

SpecTranslate == Init /\ [][TranslateNext]_vars

\* ---- the entry of a translation
\* on_change_source_language and on_change_target_language
\* (main_controller.py 325-340) update the configuration; in the two other
\* programs the user sets the Tk variables source_lang and target_lang.
\* The main thread may do so while the worker is inside translate.
ChangeLanguage ==
    /\ available_engines # <<>>
    /\ \E langs \in LangSettings \ {config_langs} : config_langs' = langs
    /\ UNCHANGED <<variant, loopVars, cacheVars, budgetVars, engineVars,
                   transVars, ocrVars, selectVars, storeVars, aggVars,
                   keyVars, capVars, detectVars, recorded>>

\* What the worker does with the translation it got: mvc,
\* _update_window_and_history 224-236 reads the languages from the
\* configuration again and add_to_history (models/translation_model.py
\* 498-505) takes the engine that is current; legacy (screen_translator.py
\* 661-668) and core (ui/controllers/translation_controller.py 229-236)
\* read engine and languages from the Tk variables when add_entry is
\* called, whatever translate_text returned. This is the step that builds
\* the entry; the store's part is StoreAddToHistory and AddEntryInsert.
RecordTranslation ==
    /\ tr_pc = "done" /\ engine_called
    /\ IF IsMvc THEN tr_result # "" ELSE ~tr_raised
    /\ recorded' = [translated_text |-> tr_result,
                    translation_engine |-> current_engine,
                    source_lang |-> config_langs.source_lang,
                    target_lang |-> config_langs.target_lang,
                    used_engine |-> tr_engine,
                    used_langs |-> tr_langs]
    /\ UNCHANGED <<variant, loopVars, cacheVars, budgetVars, engineVars,
                   transVars, ocrVars, selectVars, storeVars, aggVars,
                   keyVars, capVars, detectVars, config_langs>>

RecordNext ==
    \/ BuildRegistry
    \/ TranslateCall
    \/ TranslateAttempt
    \/ SetTranslationEngine
    \/ ChangeLanguage
    \/ RecordTranslation

SpecRecord == Init /\ [][RecordNext]_vars

\* ------------------------------------------------- the OCR error budget
\* ScreenTranslator._process_ocr, screen_translator.py 553-577, which
\* ui/controllers/translation_controller.py repeats.

\* time.sleep and the duration of the calls, in seconds: about half the
\* cooldown, or more than the cooldown.
Pauses == {31, 62}

Elapse ==
    /\ \E d \in Pauses :
        /\ now + d <= MaxClock
        /\ now' = now + d
    /\ UNCHANGED <<variant, loopVars, restVars, cache, last_compute,
                   last_call>>

\* OCRManager.process_image, ocr_manager.py 58-79: every exception of the
\* OCR computation is caught (77-79) and "" is returned.
ProcessImageRaises(failed) == FALSE

\* One iteration of translation_worker (647-673) whose screenshot succeeds
\* and whose OCR finds no new text or fails, taken as one step. failed says
\* whether the OCR computation fails. _process_ocr: a returning
\* process_image resets error_count (560); a raising one is counted
\* (563-577): the count starts again when the previous error is older than
\* the cooldown, and when it reaches max_errors the error dialog is
\* scheduled and an exception raised, which the loop answers by
\* stop_translation and break (675-679).
LegacyOcrIteration(t) ==
    /\ IsLegacy /\ pc[t] = "loop" /\ is_translating
    /\ \E failed \in BOOLEAN :
        /\ failed => Len(ocr_failure_times) < MaxOcrFailures
        /\ ocr_failure_times' = IF failed THEN Append(ocr_failure_times, now)
                                ELSE ocr_failure_times
        /\ IF ProcessImageRaises(failed)
           THEN LET count == IF /\ last_error_time # NoTime
                                /\ now - last_error_time > error_cooldown
                             THEN 1 ELSE error_count + 1
                IN  /\ error_count' = count
                    /\ last_error_time' = now
                    /\ IF count >= max_errors
                       THEN /\ error_dialog' = TRUE
                            /\ LegacyWorkerFails(t)
                       ELSE UNCHANGED <<error_dialog, is_translating,
                                        translation_window, pc, ocr_text,
                                        translated_text, in_flight_failed,
                                        stop_seen>>
           ELSE /\ error_count' = 0
                /\ UNCHANGED <<last_error_time, error_dialog,
                               is_translating, translation_window, pc,
                               ocr_text, translated_text, in_flight_failed,
                               stop_seen>>
    /\ UNCHANGED <<cacheVars, engineVars, transVars, ocrVars, selectVars,
                   extraVars, skipped_unchanged, variant, selected_region,
                   last_ocr_text, translation_thread, main_pc, history,
                   pending, captures, stop_returned, display_count>>

BudgetNext ==
    \/ SelectScreenRegion
    \/ LegacyStartTranslation
    \/ LegacyStopTranslation
    \/ Elapse
    \/ \E t \in Threads : LegacyOcrIteration(t)

SpecBudget == Init /\ [][BudgetNext]_vars

\* ------------------------------------------------ the change detection
\* Iterations of one worker that are followed with what they recognise.
MaxRecognitions == 4

\* One iteration of a worker by what it recognises and what it submits:
\* _process_and_translate, controllers/translation_controller.py 175-202
\* (mvc), and lines 650-658 of translation_worker, screen_translator.py
\* (legacy). The OCR call returns text; an empty or unchanged text ends the
\* iteration, a new one is remembered and goes to the translation call,
\* whose outcome changes nothing here.
ProcessAndTranslate ==
    /\ variant \in {"mvc", "legacy"}
    /\ Len(recognised) < MaxRecognitions
    /\ \E text \in Texts \cup {""} :
        /\ recognised' = Append(recognised, text)
        /\ IF IsNewText(text)
           THEN /\ last_ocr_text' = LastAccepted(text)
                /\ submitted' = Append(submitted, text)
           ELSE UNCHANGED <<last_ocr_text, submitted>>
    /\ UNCHANGED <<variant, cacheVars, sideVars, history, selected_region,
                   is_translating, translation_window, translation_thread,
                   main_pc, pc, ocr_text, translated_text, pending,
                   captures, in_flight_failed, stop_returned, stop_seen,
                   display_count, skipped_unchanged>>

DetectNext ==
    \/ ProcessAndTranslate

SpecDetect == Init /\ [][DetectNext]_vars

\* ---------------------------------------------------- the history store
\* TranslationModel (models/translation_model.py, mvc) and
\* TranslationHistory (translation_history.py, legacy). The worker thread
\* appends; the Tk main thread clears and reads (history window). The loop
\* specification above follows the in-memory list only.

\* Entries appended in one run.
MaxAppends == 2
\* datetime.now().microsecond: zero, or not.
Microseconds == {0, 500000}
\* get_history(limit) of the legacy store; 0 stands for None.
Limits == {0, 1}

\* everything but the history store
nonStoreVars == <<variant, loopOnlyVars, cacheVars, engineVars, transVars,
                  ocrVars, selectVars, budgetVars, aggVars, keyVars,
                  capVars, detectVars, recordVars>>

IsoFormatSeconds(ts) == <<ts.second>>

\* datetime.isoformat(): the fraction is written unless microsecond is 0.
IsoFormat(ts) ==
    IF ts.microsecond = 0 THEN <<ts.second>>
    ELSE <<ts.second, ts.microsecond>>

\* datetime.fromisoformat(): a missing fraction is microsecond 0.
FromIsoFormat(s) ==
    [second |-> s[1], microsecond |-> IF Len(s) = 1 THEN 0 ELSE s[2]]

\* TranslationEntry.to_dict 31-40. The strings go through json.dumps with
\* ensure_ascii=False and a utf-8 file unchanged.
ToDict(entry) ==
    [source_text |-> entry.source_text,
     translated_text |-> entry.translated_text,
     source_lang |-> entry.source_lang,
     target_lang |-> entry.target_lang,
     translation_engine |-> entry.translation_engine,
     timestamp |-> IsoFormat(entry.timestamp)]

\* TranslationEntry.from_dict 42-52.
FromDict(data) ==
    [source_text |-> data.source_text,
     translated_text |-> data.translated_text,
     source_lang |-> data.source_lang,
     target_lang |-> data.target_lang,
     translation_engine |-> data.translation_engine,
     timestamp |-> FromIsoFormat(data.timestamp)]

\* The history a newly started program holds: TranslationModel
\* _load_history 401-415 (mvc), TranslationHistory.load_history 16-24
\* (legacy, which keeps the dictionaries of the file).
LoadHistory(file) ==
    IF IsMvc THEN [i \in 1..Len(file) |-> FromDict(file[i])] ELSE file

Entries(h) == {h[i] : i \in 1..Len(h)}

\* The entry add_to_history 497-504 (mvc) and add_entry 40-48 (legacy)
\* build; the legacy entry holds its timestamp in ISO format.
NewEntry(text, micro) ==
    LET ts == [second |-> appends, microsecond |-> micro]
    IN  IF IsMvc
        THEN [source_text |-> text, translated_text |-> Translation(text),
              source_lang |-> "auto", target_lang |-> "en",
              translation_engine |-> "Google Translate", timestamp |-> ts]
        ELSE [timestamp |-> IsoFormat(ts), source_text |-> text,
              translated_text |-> Translation(text),
              ocr_engine |-> "Tesseract",
              translation_engine |-> "Local API",
              source_lang |-> "auto", target_lang |-> "en"]

\* Caller c enters a store operation. Two operations overlap when one
\* begins while the other caller is inside the store.
StartOp(c, op) ==
    /\ h_pc[c] = "idle"
    /\ h_op' = [h_op EXCEPT ![c] = op]
    /\ last_save' = [last_save EXCEPT ![c] = "none"]
    /\ concurrent' = \E d \in HistoryCallers \ {c} :
                         h_pc[d] \notin {"idle", "stopped"}

\* TranslationModel.add_to_history 490-508 up to the call of
\* _save_history: the entry is appended to _history.
StoreAddToHistory ==
    /\ IsMvc /\ appends < MaxAppends
    /\ StartOp("worker", "append")
    /\ \E text \in Texts, micro \in Microseconds :
        /\ history' = Append(history, NewEntry(text, micro))
        /\ appended' = NewEntry(text, micro)
    /\ appends' = appends + 1
    /\ h_pc' = [h_pc EXCEPT !["worker"] = "save_open"]
    /\ UNCHANGED <<nonStoreVars, history_file, history_data, reader_list,
                   reader_shared, unsaved>>

\* TranslationModel.clear_history 514-518 up to the call of _save_history.
StoreClearHistory ==
    /\ IsMvc
    /\ StartOp("main", "clear")
    /\ history' = <<>>
    /\ appended' = NoEntry
    /\ h_pc' = [h_pc EXCEPT !["main"] = "save_open"]
    /\ UNCHANGED <<nonStoreVars, history_file, history_data, appends,
                   reader_list, reader_shared, unsaved>>

\* A save ends with an exception, which _save_history 427-428 logs.
SaveFails(c) ==
    /\ h_pc' = [h_pc EXCEPT ![c] = "idle"]
    /\ last_save' = [last_save EXCEPT ![c] = "failed"]
    /\ unsaved' = TRUE
    /\ history_data' = [history_data EXCEPT ![c] = <<>>]

\* _save_history 419-420: open(..., "w") empties the file, or fails.
SaveHistoryOpen(c) ==
    /\ IsMvc /\ h_pc[c] = "save_open"
    /\ \E ok \in BOOLEAN :
        IF ok
        THEN /\ history_file' = <<>>
             /\ h_pc' = [h_pc EXCEPT ![c] = "save_dump"]
             /\ UNCHANGED <<last_save, unsaved, history_data>>
        ELSE /\ SaveFails(c)
             /\ UNCHANGED history_file
    /\ UNCHANGED <<nonStoreVars, history, h_op, appends, reader_list,
                   reader_shared, appended, concurrent>>

\* _save_history 421-424: the entries of _history are serialised.
SaveHistoryDump(c) ==
    /\ IsMvc /\ h_pc[c] = "save_dump"
    /\ history_data' = [history_data EXCEPT
                           ![c] = [i \in 1..Len(history) |->
                                       ToDict(history[i])]]
    /\ h_pc' = [h_pc EXCEPT ![c] = "save_write"]
    /\ UNCHANGED <<nonStoreVars, history, history_file, h_op, appends,
                   reader_list, reader_shared, appended, last_save, unsaved,
                   concurrent>>

\* _save_history 425-428: the text is written when the file is closed. A
\* failing write leaves the file as it is or cut off.
SaveHistoryWrite(c) ==
    /\ IsMvc /\ h_pc[c] = "save_write"
    /\ \E ok \in BOOLEAN :
        IF ok
        THEN /\ history_file' = history_data[c]
             /\ h_pc' = [h_pc EXCEPT ![c] = "idle"]
             /\ last_save' = [last_save EXCEPT ![c] = "ok"]
             /\ unsaved' = FALSE
             /\ history_data' = [history_data EXCEPT ![c] = <<>>]
        ELSE /\ SaveFails(c)
             /\ history_file' \in {history_file, <<>>}
    /\ UNCHANGED <<nonStoreVars, history, h_op, appends, reader_list,
                   reader_shared, appended, concurrent>>

\* TranslationHistory.add_entry 37-52: the entry is inserted at the head of
\* the list object; a list longer than max_entries is replaced by a cut
\* copy.
AddEntryInsert ==
    /\ IsLegacy /\ appends < MaxAppends
    /\ StartOp("worker", "append")
    /\ \E text \in Texts, micro \in Microseconds :
        /\ history' = AddEntry(history, NewEntry(text, micro))
        /\ appended' = NewEntry(text, micro)
        /\ reader_list' = IF reader_shared
                          THEN <<NewEntry(text, micro)>> \o reader_list
                          ELSE reader_list
    /\ reader_shared' = (reader_shared /\ Len(history) < max_entries)
    /\ appends' = appends + 1
    /\ h_pc' = [h_pc EXCEPT !["worker"] = "save"]
    /\ UNCHANGED <<nonStoreVars, history_file, history_data, unsaved>>

\* add_entry 54 with save_history_async 26-30 and _save_to_file 32-35. An
\* exception of the write leaves add_entry and run_until_complete
\* (screen_translator.py 661) and reaches the handler of the loop
\* (675-679), which stops the translation and leaves the loop.
SaveToFile ==
    /\ IsLegacy /\ h_pc["worker"] = "save"
    /\ \E ok \in BOOLEAN :
        IF ok
        THEN /\ history_file' = history
             /\ h_pc' = [h_pc EXCEPT !["worker"] = "idle"]
             /\ last_save' = [last_save EXCEPT !["worker"] = "ok"]
             /\ unsaved' = FALSE
        ELSE /\ history_file' \in {history_file, <<>>}
             /\ h_pc' = [h_pc EXCEPT !["worker"] = "stopped"]
             /\ last_save' = [last_save EXCEPT !["worker"] = "failed"]
             /\ unsaved' = TRUE
    /\ UNCHANGED <<nonStoreVars, history, h_op, history_data, appends,
                   reader_list, reader_shared, appended, concurrent>>

\* start_translation (screen_translator.py 538-544) after the loop has
\* ended: a new worker.
StoreStartTranslation ==
    /\ IsLegacy /\ h_pc["worker"] = "stopped"
    /\ h_pc' = [h_pc EXCEPT !["worker"] = "idle"]
    /\ UNCHANGED <<nonStoreVars, history, history_file, h_op, history_data,
                   appends, reader_list, reader_shared, appended, last_save,
                   unsaved, concurrent>>

\* TranslationHistory.clear_history 60-63: a new empty list is bound to
\* history, then self.save_history() raises AttributeError, the class has
\* no such method. The file is not written.
LegacyStoreClearHistory ==
    /\ IsLegacy
    /\ StartOp("main", "clear")
    /\ history' = <<>>
    /\ appended' = NoEntry
    /\ reader_shared' = FALSE
    /\ UNCHANGED <<nonStoreVars, history_file, h_pc, history_data, appends,
                   reader_list, unsaved>>

\* get_history: a copy of the list (mvc 510-512); the list object itself,
\* or a slice of it when a limit is given (legacy 56-58).
StoreGetHistory ==
    /\ variant \in {"mvc", "legacy"}
    /\ h_pc["main"] = "idle"
    /\ \E limit \in Limits :
        /\ IsMvc => limit = 0
        /\ reader_list' = IF IsLegacy /\ limit # 0
                          THEN SubSeq(history, 1,
                                      IF limit < Len(history) THEN limit
                                      ELSE Len(history))
                          ELSE history
        /\ reader_shared' = (IsLegacy /\ limit = 0)
    /\ UNCHANGED <<nonStoreVars, history, history_file, h_pc, h_op,
                   history_data, appends, appended, last_save, unsaved,
                   concurrent>>

\* The caller of get_history removes the first element of the list it
\* obtained.
ReaderRemoves ==
    /\ reader_list # <<>>
    /\ reader_list' = Tail(reader_list)
    /\ history' = IF reader_shared THEN Tail(history) ELSE history
    /\ UNCHANGED <<nonStoreVars, history_file, h_pc, h_op, history_data,
                   appends, reader_shared, appended, last_save, unsaved,
                   concurrent>>

HistoryNext ==
    \/ StoreAddToHistory
    \/ StoreClearHistory
    \/ \E c \in HistoryCallers : SaveHistoryOpen(c)
    \/ \E c \in HistoryCallers : SaveHistoryDump(c)
    \/ \E c \in HistoryCallers : SaveHistoryWrite(c)
    \/ AddEntryInsert
    \/ SaveToFile
    \/ StoreStartTranslation
    \/ LegacyStoreClearHistory
    \/ StoreGetHistory
    \/ ReaderRemoves

SpecHistory == Init /\ [][HistoryNext]_vars

\* ---- the history cap
\* Entries of translation_history.json when the program starts: none, or
\* about max_entries of them. load_history does not cut the list.
LoadedLengths == {0, max_entries - 1, max_entries, max_entries + 1}

\* The i-th entry of such a file, as add_entry 40-48 and _save_to_file
\* 32-35 of an earlier run have written it: the file is newest first, and
\* all of it is older than what this run adds.
FileEntry(i) ==
    [timestamp |-> <<0 - i>>, source_text |-> "a", translated_text |-> "A",
     ocr_engine |-> "Tesseract", translation_engine |-> "Local API",
     source_lang |-> "auto", target_lang |-> "en"]

\* The seconds of the ISO timestamp of a legacy entry.
Second(entry) == entry.timestamp[1]

\* TranslationHistory.__init__ 9-14 with load_history 16-24 when the file
\* exists and parses: history is the list in the file.
ConstructWithFile ==
    /\ IsLegacy /\ loaded = NotLoaded
    /\ appends = 0 /\ h_op = [c \in HistoryCallers |-> "none"]
    /\ \E n \in LoadedLengths :
        LET file == [i \in 1..n |-> FileEntry(i)]
        IN  /\ history_file' = file
            /\ history' = LoadHistory(file)
            /\ loaded' = LoadHistory(file)
    /\ UNCHANGED <<variant, loopOnlyVars, cacheVars, engineVars, transVars,
                   ocrVars, selectVars, budgetVars, aggVars, keyVars,
                   detectVars, recordVars, h_pc, h_op, history_data, appends, reader_list,
                   reader_shared, appended, last_save, unsaved, concurrent>>

CapNext ==
    \/ ConstructWithFile
    \/ AddEntryInsert
    \/ SaveToFile
    \/ StoreStartTranslation

SpecCap == Init /\ [][CapNext]_vars

\* ------------------------------------------------ the OCR result aggregator
\* The EasyOCR branch of OCRManager._perform_ocr, core/ocr/ocr_manager.py
\* 115-161 with _fix_ocr_errors 171-196 (core), and OCRManager
\* ._perform_easyocr with _process_easyocr_results, models/ocr_model.py
\* 198-238 (mvc). A text is a sequence of characters.

\* everything but the aggregator
nonAggVars == <<variant, loopVars, cacheVars, engineVars, transVars, ocrVars,
                selectVars, budgetVars, storeVars, keyVars, capVars,
                detectVars, recordVars>>

\* Detections in one result of readtext.
MaxDetections == 3

\* The corner points of an axis-aligned box in the order EasyOCR gives
\* them: top left, top right, bottom right, bottom left. A point is <<x, y>>.
Box(x1, y1, x2, y2) == <<<<x1, y1>>, <<x2, y1>>, <<x2, y2>>, <<x1, y2>>>>

\* A detection is what readtext returns for one hit: box and text (the
\* confidence is not read by the aggregator).
Detection(text, x1, y1, x2, y2) == [box |-> Box(x1, y1, x2, y2), text |-> text]

\* The detections readtext can return: three words in two lines, a column of
\* three boxes whose tops are 4 apart, and two boxes that start at the same
\* point.
Detections ==
    {Detection(<<"I">>, 0, 0, 10, 10),
     Detection(<<"s", "e", "e">>, 12, 0, 30, 10),
     Detection(<<"y", "o", "u">>, 0, 12, 20, 22),
     Detection(<<"i">>, 0, 4, 10, 14),
     Detection(<<"a", "m">>, 12, 8, 30, 18),
     Detection(<<"1">>, 0, 0, 8, 10)}

Abs(n) == IF n < 0 THEN 0 - n ELSE n

SetMin(S) == CHOOSE m \in S : \A n \in S : m <= n

\* min(p[1] for p in r[0]) and min(p[0] for p in r[0])
TopY(r) == SetMin({r.box[i][2] : i \in 1..4})

LeftX(r) == SetMin({r.box[i][1] : i \in 1..4})

\* abs(box[0][3][1] - box[0][0][1])
Height(r) == Abs(r.box[4][2] - r.box[1][2])

\* x[0][0][1], the sort key of _process_easyocr_results
FirstY(r) == r.box[1][2]

\* Twice the y centre of _process_easyocr_results 221-222 (the mean of the
\* four corner y values), kept whole.
YCenter2(r) == (r.box[1][2] + r.box[2][2] + r.box[3][2] + r.box[4][2]) \div 2

RECURSIVE SumHeights(_)
SumHeights(results) ==
    IF results = <<>> THEN 0
    ELSE Height(Head(results)) + SumHeights(Tail(results))

\* sorted / list.sort with a key: stable, equal keys keep their order. key
\* is a function on Detections.
RECURSIVE SortedBy(_, _)
SortedBy(results, key) ==
    IF results = <<>> THEN <<>>
    ELSE LET n == Len(results)
             rest == SortedBy(SubSeq(results, 1, n - 1), key)
             r == results[n]
             k == Cardinality({i \in 1..Len(rest) : key[rest[i]] <= key[r]})
         IN  SubSeq(rest, 1, k) \o <<r>> \o SubSeq(rest, k + 1, Len(rest))

ByTopY == [r \in Detections |-> TopY(r)]

ByLeftX == [r \in Detections |-> LeftX(r)]

ByFirstY == [r \in Detections |-> FirstY(r)]

NoY == 0 - 1

NeverSameLine(top_y, last_y, results) == FALSE

\* core 120-122 and 135: abs(top_y - last_y) <= line_threshold with
\* line_threshold = avg_height * 0.5, avg_height = sum(heights) /
\* len(heights); both sides are multiplied by 2 * len(results).
SameLine(top_y, last_y, results) ==
    2 * Len(results) * Abs(top_y - last_y) <= SumHeights(results)

\* core 125-148: the walk over sorted_by_y from block i on; a line that is
\* closed is sorted by left x.
RECURSIVE GroupLines(_, _, _, _, _, _)
GroupLines(sorted_by_y, i, lines, current_line, last_y, results) ==
    IF i > Len(sorted_by_y)
    THEN IF current_line # <<>>
         THEN Append(lines, SortedBy(current_line, ByLeftX))
         ELSE lines
    ELSE LET result == sorted_by_y[i]
             top_y == TopY(result)
         IN  IF last_y = NoY \/ SameLine(top_y, last_y, results)
             THEN GroupLines(sorted_by_y, i + 1, lines,
                             Append(current_line, result), top_y, results)
             ELSE GroupLines(sorted_by_y, i + 1,
                             IF current_line # <<>>
                             THEN Append(lines,
                                         SortedBy(current_line, ByLeftX))
                             ELSE lines,
                             <<result>>, top_y, results)

\* mvc 216-236: the walk over the results sorted by their first corner's
\* y. A block joins the current line when its y centre is less than 10
\* from the y centre of the block that began the line; no line is sorted.
RECURSIVE EasyOcrLines(_, _, _, _, _)
EasyOcrLines(results, i, lines, current_line, last_y_center) ==
    IF i > Len(results)
    THEN IF current_line # <<>> THEN Append(lines, current_line) ELSE lines
    ELSE LET r == results[i]
         IN  IF current_line = <<>>
             THEN EasyOcrLines(results, i + 1, lines, <<r>>, YCenter2(r))
             ELSE IF Abs(YCenter2(r) - last_y_center) < 2 * 10
             THEN EasyOcrLines(results, i + 1, lines,
                               Append(current_line, r), last_y_center)
             ELSE EasyOcrLines(results, i + 1, Append(lines, current_line),
                               <<r>>, YCenter2(r))

\* The lines of one aggregation, each a sequence of detections.
Lines(results) ==
    IF variant = "core"
    THEN GroupLines(SortedBy(results, ByTopY), 1, <<>>, <<>>, NoY, results)
    ELSE EasyOcrLines(SortedBy(results, ByFirstY), 1, <<>>, <<>>, NoY)

\* str.join over a sequence of texts
RECURSIVE Join(_, _)
Join(sep, texts) ==
    IF texts = <<>> THEN <<>>
    ELSE IF Len(texts) = 1 THEN texts[1]
    ELSE texts[1] \o sep \o Join(sep, Tail(texts))

\* ' '.join(block[1] for block in line) (core 153); current_line += " " +
\* text (mvc 229)
LineText(line) == Join(<<" ">>, [i \in 1..Len(line) |-> line[i].text])

\* The line-join policy: ' '.join(text_lines) (core 156), "\n".join(lines)
\* (mvc 238).
LineSeparator == IF variant = "core" THEN <<" ">> ELSE <<"\n">>

\* str.replace(old, new) from position i on
RECURSIVE ReplaceFrom(_, _, _, _)
ReplaceFrom(text, old, new, i) ==
    IF i > Len(text) THEN <<>>
    ELSE IF /\ i + Len(old) - 1 <= Len(text)
            /\ SubSeq(text, i, i + Len(old) - 1) = old
    THEN new \o ReplaceFrom(text, old, new, i + Len(old))
    ELSE <<text[i]>> \o ReplaceFrom(text, old, new, i + 1)

\* core 174-182, in the order of the dictionary
replacements ==
    <<<< <<"1", " ">>, <<"I", " ">> >>,
      << <<" ", "1", " ">>, <<" ", "I", " ">> >>,
      << <<" ", "i", " ">>, <<" ", "I", " ">> >>,
      << <<" ", "i", "m", " ">>, <<" ", "I", "'", "m", " ">> >>,
      << <<" ", "i", "l", "l", " ">>, <<" ", "I", "'", "l", "l", " ">> >>,
      << <<" ", "i", "v", "e", " ">>, <<" ", "I", "'", "v", "e", " ">> >>,
      << <<" ", "i", "d", " ">>, <<" ", "I", "'", "d", " ">> >> >>

\* core 185-186
RECURSIVE ApplyReplacements(_, _)
ApplyReplacements(text, i) ==
    IF i > Len(replacements) THEN text
    ELSE ApplyReplacements(
             ReplaceFrom(text, replacements[i][1], replacements[i][2], 1),
             i + 1)

LowerCase == <<"a", "b", "c", "d", "e", "f", "g", "h", "i", "j", "k", "l",
               "m", "n", "o", "p", "q", "r", "s", "t", "u", "v", "w", "x",
               "y", "z">>

UpperCase == <<"A", "B", "C", "D", "E", "F", "G", "H", "I", "J", "K", "L",
               "M", "N", "O", "P", "Q", "R", "S", "T", "U", "V", "W", "X",
               "Y", "Z">>

\* str.upper of one character
Upper(c) ==
    IF \E i \in 1..Len(LowerCase) : LowerCase[i] = c
    THEN UpperCase[CHOOSE i \in 1..Len(LowerCase) : LowerCase[i] = c]
    ELSE c

\* core 189-196: the text is split at '. ' and every part that begins with
\* a lower-case letter gets it in upper case; a part begins at the start
\* of the text and after every '. '.
FixSentenceStarts(text) ==
    [i \in 1..Len(text) |->
        IF \/ i = 1
           \/ i > 2 /\ text[i - 2] = "." /\ text[i - 1] = " "
        THEN Upper(text[i]) ELSE text[i]]

\* OCRManager._fix_ocr_errors, core 171-196
FixOcrErrors(text) == FixSentenceStarts(ApplyReplacements(text, 1))

\* The text of one aggregation: core 116-117 and 150-161; mvc 210-211 and
\* 238, which applies no repair.
Aggregate(results) ==
    IF results = <<>> THEN <<>>
    ELSE LET lines == Lines(results)
             text == Join(LineSeparator,
                          [i \in 1..Len(lines) |-> LineText(lines[i])])
         IN  IF variant = "core" THEN FixOcrErrors(text) ELSE text

AsSet(results) == {results[i] : i \in 1..Len(results)}

\* What readtext can return: the detections of a frame in any order.
Results ==
    {s \in UNION {[1..n -> Detections] : n \in 0..MaxDetections} :
        \A i, j \in 1..Len(s) : i # j => s[i] # s[j]}

NoText == <<"none">>

\* reader.readtext (core 103-113, mvc 204). When the frame holds the
\* detections of the aggregation before, in whatever order, the text of that
\* aggregation is kept for comparison.
ReadText ==
    /\ variant \in {"core", "mvc"}
    /\ agg_state \in {"idle", "done"}
    /\ \E results \in Results :
        /\ detections' = results
        /\ prev_text' = IF agg_state = "done"
                           /\ AsSet(results) = AsSet(detections)
                        THEN agg_text ELSE NoText
    /\ agg_state' = "read"
    /\ UNCHANGED <<nonAggVars, agg_lines, agg_text>>

\* The rest of the EasyOCR branch: the lines and the text.
AggregateResults ==
    /\ agg_state = "read"
    /\ agg_lines' = IF detections = <<>> THEN <<>> ELSE Lines(detections)
    /\ agg_text' = Aggregate(detections)
    /\ agg_state' = "done"
    /\ UNCHANGED <<nonAggVars, detections, prev_text>>

AggregateNext ==
    \/ ReadText
    \/ AggregateResults

SpecAggregate == Init /\ [][AggregateNext]_vars

Next ==
    \/ SelectScreenRegion
    \/ StartTranslation
    \/ ShowStartError
    \/ StartCreateWindow
    \/ StartThread
    \/ StopTranslation
    \/ StopDestroyWindow
    \/ DoUpdateText
    \/ MvcWorker
    \/ LegacyStartTranslation
    \/ LegacyStopTranslation
    \/ LegacyUpdateTranslationDisplay
    \/ LegacyWorker

Spec == Init /\ [][Next]_vars

\* ================================================================ claims

\* C1: the translation engine is never invoked on a text equal to the last
\* accepted OCR text: a worker enters the translation call only with a text
\* that differs from last_ocr_text as it was when the text was recognised,
\* so the same text recognised twice in a row is translated and recorded
\* once.
C1_NoTranslationOfUnchangedText ==
    [][\A t \in Threads :
          (pc[t] # "translate" /\ pc'[t] = "translate")
              => ocr_text'[t] # last_ocr_text]_vars

\* C1 witness: a text was recognised again and skipped, and the history
\* holds the one entry of its first recognition.
C1_Witness ==
    /\ skipped_unchanged
    /\ Len(history) = 1
    /\ history[1].source_text = last_ocr_text

\* C2: an iteration whose translation call failed appends no entry and
\* issues no display update, and the worker is back at the head of the loop.
C2_FailedTranslationRecordsNothing ==
    [][\A t \in Threads :
          (in_flight_failed'[t] /\ pc'[t] # pc[t])
              => /\ history' = history
                 /\ display_count' = display_count
                 /\ pc'[t] = "loop"]_vars

\* C3: a translation call that fails (it returns nothing or raises) leaves
\* is_translating as it was and the worker in its loop.
C3_TranslationFailureKeepsLoop ==
    [][\A t \in Threads :
          (pc[t] = "translate" /\ pc'[t] # "translate"
                               /\ translated_text'[t] = "")
              => /\ is_translating' = is_translating
                 /\ Alive(t)']_vars

\* C4: the history entry and the display update of a successful translation
\* come together: whenever no worker is between the two, as many entries
\* have been appended as display updates issued.
C4_EntryAndDisplayTogether ==
    (\A t \in Threads : pc[t] \notin {"add_history", "display"})
        => Len(history) = display_count

\* C5: no two translation calls are in flight at the same time.
C5_OneTranslationInFlight ==
    Cardinality({t \in Threads : pc[t] = "translate"}) <= 1

\* C6: after stop_translation has returned and until start_translation is
\* called again, no entry is appended and no display update is issued.
C6_NothingRecordedAfterStop ==
    [][stop_returned
          => /\ history' = history
             /\ display_count' = display_count]_vars

\* C7: a worker that was running when stop_translation was called leaves
\* its loop at the next loop test, whatever start/stop calls follow.
C7_StoppedWorkerLeavesLoop ==
    [][\A t \in Threads :
          (stop_seen[t] /\ pc[t] = "loop" /\ pc'[t] # "loop")
              => ~Alive(t)']_vars

\* C8: when the latest OCR computation for a key succeeded, a lookup of that
\* key less than cache_ttl seconds later runs no computation and returns the
\* same result, and a lookup more than cache_ttl seconds later runs the
\* computation again.
C8_CachedWithinTtlRecomputedAfter ==
    (last_call # NoCall /\ last_call.before # NoEntry
                        /\ ~last_call.before.failed)
        => LET elapsed == last_call.at - last_call.before.at
           IN  /\ elapsed < cache_ttl
                    => /\ ~last_call.ran
                       /\ last_call.result = last_call.before.result
               /\ elapsed > cache_ttl => last_call.ran

\* C8 witness: computed at t=0, answered from the cache at t=4.
C8_Witness ==
    /\ last_call # NoCall
    /\ ~last_call.ran
    /\ last_call.at = 4
    /\ last_call.before # NoEntry
    /\ last_call.before.at = 0
    /\ ~last_call.before.failed

\* C9: when the latest OCR computation for a key failed, the next lookup of
\* that key runs the computation again.
C9_FailureNotCached ==
    (last_call # NoCall /\ last_call.before # NoEntry
                        /\ last_call.before.failed)
        => last_call.ran

\* C10: a failed OCR computation reaches the caller of process_image as an
\* error.
C10_FailurePropagates ==
    (last_call # NoCall /\ last_call.failed) => last_call.raised

\* C11: a translate call whose outbound calls fail only transiently ends
\* with the translation as soon as one of them succeeds, and ends in failure
\* only after max_retries transient failures.
C11_TransientFailuresRetried ==
    (tr_pc = "done" /\ outcomes # <<>>)
        => LET n == Len(outcomes)
           IN  (\A i \in 1..(n - 1) : outcomes[i] = "connect_error")
                  => /\ outcomes[n] = "ok"
                          => tr_result = Translation(tr_text)
                     /\ outcomes[n] = "connect_error"
                          => /\ n = max_retries
                             /\ tr_result = ""
                             /\ ~tr_raised

\* C12: an outbound call that fails with an error other than a connection
\* failure is the last one of its translate call, which ends in failure.
C12_NonTransientNotRetried ==
    \A i \in 1..Len(outcomes) :
        outcomes[i] = "http_error"
            => /\ i = Len(outcomes)
               /\ tr_pc = "done"
               /\ tr_result = ""
               /\ ~tr_raised

\* C12 witness: the engine that retries connection failures (the mvc
\* GoogleTranslator) has ended a call after one outbound call that answered
\* with an HTTP error.
C12_Witness ==
    /\ variant = "mvc"
    /\ tr_engine = "Google Translate"
    /\ tr_pc = "done"
    /\ outcomes = <<"http_error">>

\* C13: a translate call whose last outbound call was answered with a
\* malformed body ends without a translation and without raising.
C13_MalformedResponseIsFailure ==
    (tr_pc = "done" /\ outcomes # <<>>
                    /\ outcomes[Len(outcomes)] = "malformed")
        => /\ tr_result = ""
           /\ ~tr_raised

\* C14: translate called with a text that is empty after trimming returns
\* the empty result and calls no engine.
C14_BlankTextSkipsEngine ==
    (tr_pc # "idle" /\ tr_text \in {"", " "})
        => /\ tr_pc = "done"
           /\ tr_result = ""
           /\ ~tr_raised
           /\ ~engine_called
           /\ outcomes = <<>>

\* C14 witness: translate has returned for a text of one blank.
C14_Witness ==
    /\ tr_pc = "done"
    /\ tr_text = " "
    /\ tr_result = ""
    /\ ~engine_called

\* C15: a set_engine call with an id that is not in the available set of
\* its selector leaves the current engine as it was and notifies no
\* observer, for the translation selector and for the OCR selector.
C15_UnknownEngineRejected ==
    \A kind \in Selectors :
        LET call == last_set[kind]
            current == IF kind = "translation" THEN current_engine
                       ELSE ocr_current
        IN  (call # NoSet /\ \A i \in 1..Len(call.engines) :
                                 call.engines[i] # call.id)
                => /\ current = call.before
                   /\ ~call.notified

\* C15 witness: both selectors were last called with an id that names no
\* engine.
C15_Witness ==
    /\ last_set["translation"].id = "Unknown"
    /\ last_set["ocr"].id = "Unknown"

\* C16: when the registry was built without GEMINI_API_KEY, Gemini is not
\* in the available set and is not the current engine.
C16_UnconfiguredGeminiAbsent ==
    (available_engines # <<>> /\ ~gemini_configured)
        => /\ \A i \in 1..Len(available_engines) :
                  available_engines[i] # "Gemini"
           /\ current_engine # "Gemini"

\* C17: an OCR engine whose construction has failed is not in the
\* selectable set.
C17_FailedEngineRemoved ==
    \A e \in ConstructedEngines :
        construction_failures[e] > 0
            => \A i \in 1..Len(ocr_available) : ocr_available[i] # e

\* C18: after n cycle calls in a row the current engine is the one n places
\* after the starting engine in the ordered list, counted modulo the length
\* of the list: Tesseract, EasyOCR, Windows OCR, Tesseract again.
C18_CycleIsNextModN ==
    \A kind \in Selectors :
        LET engines == IF kind = "translation" THEN available_engines
                       ELSE ocr_available
            current == IF kind = "translation" THEN current_engine
                       ELSE ocr_current
            start == CHOOSE i \in 1..Len(engines) :
                         engines[i] = cycle_from[kind]
        IN  cycle_count[kind] > 0
                => current = engines[((start - 1 + cycle_count[kind])
                                          % Len(engines)) + 1]

\* C18 witness: three cycle calls from Tesseract have come back to
\* Tesseract.
C18_Witness ==
    /\ cycle_from["ocr"] = "Tesseract"
    /\ cycle_count["ocr"] = 3
    /\ ocr_current = "Tesseract"

\* C19: an OCR failure that brings the failures of the last error_cooldown
\* seconds above max_errors stops the loop and surfaces an error.
C19_ExceededBudgetStopsLoop ==
    [][LET n == Len(ocr_failure_times')
           recent == {i \in 1..n :
                         ocr_failure_times'[n] - ocr_failure_times'[i]
                             < error_cooldown}
       IN  (n > Len(ocr_failure_times) /\ Cardinality(recent) > max_errors)
               => /\ ~is_translating'
                  /\ error_dialog']_vars

\* C20: a failed capture leaves is_translating as it was and the worker at
\* the head of its loop, with no OCR and no translation for that capture.
C20_CaptureFailureKeepsLoop ==
    [][\A t \in Threads :
          (captures' = captures + 1 /\ pc'[t] # pc[t] /\ pc'[t] # "ocr")
              => /\ pc'[t] = "loop"
                 /\ is_translating' = is_translating]_vars

\* C21: history round trip: when the save of an append ends well and the
\* appended entry is still in the in-memory history, the history a reload
\* builds from the file holds an entry equal to it in every field.
C21_HistoryRoundTrip ==
    [][(/\ last_save'["worker"] = "ok" /\ last_save["worker"] # "ok"
        /\ appended # NoEntry
        /\ appended \in Entries(history'))
           => appended \in Entries(LoadHistory(history_file'))]_vars

\* C21 witness: the mvc program has saved an entry whose timestamp has a
\* fraction of a second, and a reload yields it.
C21_Witness ==
    /\ IsMvc /\ last_save["worker"] = "ok" /\ h_pc["worker"] = "idle"
    /\ appended # NoEntry
    /\ appended.timestamp.microsecond # 0
    /\ history_file # <<>>
    /\ appended \in Entries(LoadHistory(history_file))

\* C22: once a clear call has returned, with no other store operation
\* overlapping it and no append begun since, the in-memory history is
\* empty and so is the history a reload builds from the file.
C22_ClearTruncatesBoth ==
    (/\ h_op["main"] = "clear" /\ h_pc["main"] = "idle"
     /\ appended = NoEntry /\ ~concurrent)
        => /\ history = <<>>
           /\ LoadHistory(history_file) = <<>>

\* The timestamps of a history in insertion order: ascending when the
\* newest entry is last (mvc), descending when it is first (legacy).
InsertionOrdered(h) ==
    \A i, j \in 1..Len(h) :
        i < j => IF IsMvc
                 THEN h[i].timestamp.second < h[j].timestamp.second
                 ELSE h[i].timestamp[1] > h[j].timestamp[1]

\* C23: the history holds its entries in insertion order, and whenever no
\* store operation is in progress, the latest one overlapped with no other
\* and no save has failed, the file holds the same entries in the same
\* order as the in-memory list.
C23_InsertionOrderInBothViews ==
    /\ InsertionOrdered(history)
    /\ (/\ \A c \in HistoryCallers : h_pc[c] \in {"idle", "stopped"}
        /\ ~unsaved /\ ~concurrent)
           => LoadHistory(history_file) = history

\* C24: a save that fails during an append does not end the loop and
\* leaves the entry in the in-memory history, and a later append whose save
\* ends well, overlapped by no other operation, leaves the file with every
\* entry of the in-memory history.
C24_PersistFailureKeepsEntry ==
    [][/\ (last_save'["worker"] = "failed" /\ last_save["worker"] # "failed")
          => /\ h_pc'["worker"] # "stopped"
             /\ appended # NoEntry => appended \in Entries(history')
       /\ (/\ last_save'["worker"] = "ok" /\ last_save["worker"] # "ok"
           /\ ~concurrent)
          => LoadHistory(history_file') = history']_vars

\* C25: the list a reader obtained from get_history is a snapshot: no step
\* changes both the store's list and the reader's list.
C25_ReaderHoldsSnapshot ==
    [][~(history' # history /\ reader_list' # reader_list)]_vars

\* C26: aggregation does not depend on the order of its input: a frame
\* that holds the detections of the frame before, in whatever order,
\* yields the same text.
C26_OrderIndependent ==
    (agg_state = "done" /\ prev_text # NoText) => agg_text = prev_text

\* The line a detection of the aggregated input was placed in.
LineOf(r) == CHOOSE i \in 1..Len(agg_lines) : r \in AsSet(agg_lines[i])

\* C27: two detections of one input whose top y values differ by more than
\* half the mean height are in different lines, and two whose top y values
\* differ by less are in the same line.
C27_ThresholdSeparatesLines ==
    agg_state = "done"
        => \A r, s \in AsSet(detections) :
              LET dy2n == 2 * Len(detections) * Abs(TopY(r) - TopY(s))
              IN  /\ dy2n > SumHeights(detections) => LineOf(r) # LineOf(s)
                  /\ dy2n < SumHeights(detections) => LineOf(r) = LineOf(s)

\* The detections of the scenario, in the order given.
Scenario ==
    <<Detection(<<"I">>, 0, 0, 10, 10),
      Detection(<<"s", "e", "e">>, 12, 0, 30, 10),
      Detection(<<"y", "o", "u">>, 0, 12, 20, 22)>>

\* C28: the scenario yields the two lines "I see" and "you" and the text
\* made of them under the line-join policy of the program.
C28_ScenarioISeeYou ==
    (agg_state = "done" /\ detections = Scenario)
        => /\ [i \in 1..Len(agg_lines) |-> LineText(agg_lines[i])]
                  = << <<"I", " ", "s", "e", "e">>, <<"y", "o", "u">> >>
           /\ agg_text = <<"I", " ", "s", "e", "e">> \o LineSeparator
                             \o <<"y", "o", "u">>

\* C28 witness: the core program has aggregated the scenario to
\* "I see you".
C28_Witness ==
    /\ variant = "core" /\ agg_state = "done" /\ detections = Scenario
    /\ Len(agg_lines) = 2
    /\ agg_text = <<"I", " ", "s", "e", "e", " ", "y", "o", "u">>

\* C29: in every aggregated line the detections are in ascending order of
\* their left x.
C29_LinesSortedByLeftX ==
    agg_state = "done"
        => \A l \in 1..Len(agg_lines) :
              \A i, j \in 1..Len(agg_lines[l]) :
                  i < j => LeftX(agg_lines[l][i]) <= LeftX(agg_lines[l][j])


\* C30: a process_image call that is answered from the cache is answered
\* from an entry that a call with the same screenshot, the same OCR engine
\* and the same source language has stored; so the first call after a
\* switch of the engine or of the language is not answered from the entry
\* of the engine or language before.
C30_CachedResultHasSameKeyParts ==
    (lookup # NoArgs /\ lookup.from_cache)
        => lookup.producer = Args(lookup.image, lookup.method,
                                  lookup.source_lang)

\* C30 witness: a call for the screenshot of the call before, with another
\* engine or language, while the entry of the call before is still fresh:
\* it is not answered from the cache.
C30_Witness ==
    /\ lookup # NoArgs
    /\ lookup.after # NoArgs
    /\ lookup.after.image = lookup.image
    /\ \/ lookup.after.method # lookup.method
       \/ lookup.after.source_lang # lookup.source_lang
    /\ lookup.after_fresh
    /\ ~lookup.from_cache
    /\ last_call.ran


\* C31: history cap: once add_entry has run, the history holds at most
\* max_entries entries and begins with the entry just added, and every
\* loaded entry that is no longer in the history is older than every entry
\* that is.
C31_HistoryCap ==
    (IsLegacy /\ appends > 0 /\ h_op["worker"] = "append")
        => /\ Len(history) <= max_entries
           /\ history[1] = appended
           /\ LET before == IF loaded = NotLoaded THEN <<>> ELSE loaded
              IN  \A e \in Entries(before) \ Entries(history) :
                      \A k \in Entries(history) : Second(e) < Second(k)

\* C31 witness: the store was built from a full file and an entry was
\* added: the history is at the cap, begins with the new entry and has
\* lost a loaded one.
C31_Witness ==
    /\ IsLegacy /\ loaded # NotLoaded
    /\ Len(loaded) >= max_entries
    /\ appends > 0
    /\ Len(history) = max_entries
    /\ history[1] = appended
    /\ Entries(loaded) \ Entries(history) # {}


\* C32: start_translation without a selected region raises and changes
\* nothing: in the mvc program no step of the idle main thread taken while
\* no region is selected sets is_translating, creates a translation window
\* or starts a worker thread; the step that raises is taken without a
\* region, and it and the handler's step leave the flag, the window, the
\* thread and the last accepted text as they were.
C32_StartWithoutRegionChangesNothing ==
    [][/\ (IsMvc /\ MainIdle /\ ~selected_region)
           => /\ is_translating' => is_translating
              /\ translation_window' => translation_window
              /\ translation_thread' = translation_thread
              /\ \A t \in Threads :
                     pc'[t] \notin {"none", "crashed"} => Alive(t)
       /\ (main_pc' = "start_error" /\ main_pc # "start_error")
           => ~selected_region
       /\ (main_pc' # main_pc /\ "start_error" \in {main_pc, main_pc'})
           => UNCHANGED <<is_translating, translation_window,
                          translation_thread, last_ocr_text>>]_vars

\* C32 witness: start_translation was called without a region and has
\* raised; nothing translates, there is no window and no worker.
C32_Witness ==
    /\ IsMvc /\ main_pc = "start_error" /\ ~selected_region
    /\ ~is_translating /\ ~translation_window
    /\ \A t \in Threads : ~Alive(t)


\* C33: start_translation resets the last accepted OCR text: the step that
\* sets is_translating leaves last_ocr_text empty, so that the first text
\* recognised in the new run differs from it and is submitted.
C33_StartResetsLastText ==
    [][(~is_translating /\ is_translating') => last_ocr_text' = ""]_vars


\* C34: the last accepted text is set before the translation call and the
\* call, failed or not, leaves it alone: a worker enters the call with a
\* text that differs from the last accepted one and that is the last
\* accepted one from then on, and the last accepted text changes only when
\* a different non-empty text is accepted or start_translation resets it.
\* So a text
\* whose translation failed is not submitted again while it is the text
\* recognised.
C34_FailedTextNotResubmitted ==
    [][/\ \A t \in Threads :
            /\ (pc[t] # "translate" /\ pc'[t] = "translate")
                   => /\ ocr_text'[t] # last_ocr_text
                      /\ last_ocr_text' = ocr_text'[t]
            /\ (pc[t] = "translate" /\ pc'[t] # "translate")
                   => last_ocr_text' = last_ocr_text
       /\ last_ocr_text' # last_ocr_text
            => \/ \E t \in Threads :
                     /\ pc[t] # "translate" /\ pc'[t] = "translate"
                     /\ ocr_text'[t] # ""
               \/ /\ last_ocr_text' = ""
                  /\ MainIdle /\ main_pc' = "start_window"
                  /\ is_translating']_vars

\* C34 witness: a text was accepted, nothing has been recorded or displayed
\* (its translation failed), the one worker is back at the head of its
\* loop, and the same text was recognised again and skipped.
C34_Witness ==
    /\ last_ocr_text # ""
    /\ skipped_unchanged
    /\ history = <<>> /\ display_count = 0
    /\ is_translating
    /\ \E t \in Threads :
          /\ pc[t] = "loop"
          /\ \A u \in Threads \ {t} : pc[u] = "none"


\* The texts of a sequence of recognitions that are not empty.
NonEmpty(seq) == SelectSeq(seq, LAMBDA text : text # "")

\* A sequence without the elements that repeat the element before them.
RECURSIVE WithoutRepeats(_)
WithoutRepeats(seq) ==
    IF Len(seq) <= 1 THEN seq
    ELSE LET front == WithoutRepeats(SubSeq(seq, 1, Len(seq) - 1))
         IN  IF seq[Len(seq)] = seq[Len(seq) - 1] THEN front
             ELSE Append(front, seq[Len(seq)])

\* C35: an iteration that recognises nothing leaves the last accepted text
\* as it was and makes no translation call: the texts submitted are the
\* non-empty recognitions without those that repeat the non-empty
\* recognition before them, and the last accepted text is the latest
\* non-empty recognition. So T, empty, T submits T once.
C35_EmptyResultChangesNothing ==
    LET texts == NonEmpty(recognised)
    IN  /\ submitted = WithoutRepeats(texts)
        /\ last_ocr_text = IF texts = <<>> THEN "" ELSE texts[Len(texts)]
        /\ recognised = <<"a", "", "a">> => submitted = <<"a">>

\* C35 witness: the recognitions T, empty, T with one translation call.
C35_Witness ==
    /\ recognised = <<"a", "", "a">>
    /\ submitted = <<"a">>
    /\ last_ocr_text = "a"


\* C36: the engine, the source language and the target language of a
\* history entry are those its translate call was made with.
C36_EntryRecordsWhatWasUsed ==
    recorded # NoRecord
        => /\ recorded.translation_engine = recorded.used_engine
           /\ recorded.source_lang = recorded.used_langs.source_lang
           /\ recorded.target_lang = recorded.used_langs.target_lang


\* C37: once the registry is built, the current translation engine is in
\* the list of available engines and has an engine instance.
C37_CurrentEngineIsRegistered ==
    available_engines # <<>>
        => /\ IsAvailable(current_engine, available_engines)
           /\ current_engine \in engine_instances

\* C37 witness: the mvc registry was built with a configured engine that
\* is not available and the engine was cycled since; the current engine is
\* an available one.
C37_Witness ==
    /\ IsMvc /\ available_engines # <<>>
    /\ ~IsAvailable(configured, available_engines)
    /\ cycle_count["translation"] > 0
    /\ IsAvailable(current_engine, available_engines)


\* C38: from the return of stop_translation until start_translation is
\* called again there is no translation window: none is created, and a
\* display callback that runs then finds no window to write to.
C38_NoWindowAfterStop ==
    [][stop_returned => ~translation_window']_vars


\* C39: a call of TranslationModel.translate (the mvc program) that has
\* ended has raised nothing; its result is the string the engine returned
\* when the last outbound call succeeded, and the empty string when the
\* text was blank, the engine was not configured or the last outbound call
\* failed.
C39_TranslateNeverRaises ==
    (IsMvc /\ tr_pc = "done")
        => /\ ~tr_raised
           /\ tr_result \in {"", Translation(tr_text)}
           /\ tr_result # ""
                  <=> /\ engine_called
                      /\ outcomes # <<>>
                      /\ outcomes[Len(outcomes)] = "ok"

\* C39 witness: translate was called with a text while the current engine
\* was the Gemini engine without an API key; the engine raised before any
\* outbound call and translate returned the empty string.
C39_Witness ==
    /\ IsMvc /\ tr_pc = "done"
    /\ tr_text = "a" /\ engine_called
    /\ tr_engine = "Gemini" /\ ~gemini_configured
    /\ outcomes = <<>>
    /\ tr_result = "" /\ ~tr_raised

==============================================================================
